---- MODULE Spec2Model ----
(***************************************************************************)
(* Babel: rule extraction (extractEntry), the parseBindingEntries driver,  *)
(* binding construction (parseBindingEntry), the program filter and the    *)
(* commands that consume them.                                             *)
(*                                                                         *)
(* A Go string is modelled as a sequence of one-character strings; offsets *)
(* are zero-based as in the source, so text[k] of the source is At(text,k).*)
(***************************************************************************)
EXTENDS Integers, Sequences, FiniteSets, TLC

VARIABLES
  text,      \* the text being scanned (the file loaded by parseEDNFile)
  startPos,  \* start offset of the latest extractEntry call
  res,       \* what the latest extractEntry call returned
  pc,        \* where the run stands
  files,     \* the texts of the paths given to parseEDNFiles, in order
  parsed,    \* what each finished parseEDNFile call returned, in call order
  all,       \* the slice all of parseEDNFiles
  mode,      \* the mode extractMode found in text
  pos,       \* pos of parseBindingEntries
  entries,   \* entries of parseBindingEntries
  origin,    \* for each element of entries, the nextPos of its rule form
  ret,       \* the latest return of parseBindingEntry: <<>> is nil, <<e>> an entry
  flags,     \* the command line: command, program, renderMode
  filtered,  \* the latest filterByProgram call: its pattern and what it returned
  out,       \* one record per renderer call that wrote output
  err,       \* how the process died, "" while it has not
  lookups,   \* the lookup tables initConfigDirs built, one per config file
  keyCall    \* the latest direct call of a key formatter: arguments, result

vars == <<text, startPos, res, pc, files, parsed, all, mode, pos, entries,
          origin, ret, flags, filtered, out, err, lookups, keyCall>>

pipeVars == <<files, parsed, all, mode, pos, entries, origin, ret, flags,
              filtered, out, err>>

NoFlags == [command |-> "", program |-> <<>>, renderMode |-> ""]

NoFilter == [programFilter |-> <<>>, out |-> <<>>]

fmtVars == <<lookups, keyCall>>

(* ------------------------------ bounds --------------------------------- *)

\* longest arbitrary text put in front of a body in the scanner specification
MaxPre == 3

\* most pieces the input files of a run are put together from
MaxSegs == 2

\* most input files of a run
MaxFiles == 2

Min(S) == CHOOSE x \in S : \A y \in S : x <= y

(* --------------------------- string helpers ---------------------------- *)

At(s, k) == s[k + 1]

\* s[a:b] of the source
Slice(s, a, b) == SubSeq(s, a + 1, b)

\* unicode.IsSpace on the characters that occur in the model
IsSpace(c) == c \in {" ", "\n", "\t"}

RECURSIVE IndexRune(_, _)
\* strings.IndexRune(s, c): offset of the first c in s, -1 when there is none
IndexRune(s, c) ==
  IF s = <<>> THEN -1
  ELSE IF Head(s) = c THEN 0
  ELSE LET d == IndexRune(Tail(s), c) IN IF d < 0 THEN -1 ELSE d + 1

(* ------------------------------ scanner -------------------------------- *)

NotFound == [metaStr |-> <<>>, vecStr |-> <<>>, nextPos |-> 0, ok |-> FALSE]

RECURSIVE skipSpace(_, _)
\* for j < len(text) && unicode.IsSpace(rune(text[j])) { j++ }
skipSpace(t, j) ==
  IF j < Len(t) /\ IsSpace(At(t, j)) THEN skipSpace(t, j + 1) ELSE j

RECURSIVE metaLoop(_, _, _)
\* the metaLoop of extractEntry: the offset k and braceCount it ends with
metaLoop(t, k, braceCount) ==
  IF k >= Len(t) THEN [k |-> k, count |-> braceCount]
  ELSE IF At(t, k) = "{" THEN metaLoop(t, k + 1, braceCount + 1)
  ELSE IF At(t, k) = "}" THEN
         IF braceCount - 1 = 0 THEN [k |-> k + 1, count |-> 0]
         ELSE metaLoop(t, k + 1, braceCount - 1)
  ELSE metaLoop(t, k + 1, braceCount)

RECURSIVE vecLoop(_, _, _)
\* vecLoop taking the end of the text for the closing bracket
vecLoop_eofCloses(t, q, bracketCount) ==
  IF q >= Len(t) THEN [k |-> q, count |-> 0]
  ELSE IF At(t, q) = "[" THEN vecLoop(t, q + 1, bracketCount + 1)
  ELSE IF At(t, q) = "]" THEN
         IF bracketCount - 1 = 0 THEN [k |-> q + 1, count |-> 0]
         ELSE vecLoop(t, q + 1, bracketCount - 1)
  ELSE vecLoop(t, q + 1, bracketCount)

\* the vecLoop of extractEntry: the offset q and bracketCount it ends with
vecLoop(t, q, bracketCount) ==
  IF q >= Len(t) THEN [k |-> q, count |-> bracketCount]
  ELSE IF At(t, q) = "[" THEN vecLoop(t, q + 1, bracketCount + 1)
  ELSE IF At(t, q) = "]" THEN
         IF bracketCount - 1 = 0 THEN [k |-> q + 1, count |-> 0]
         ELSE vecLoop(t, q + 1, bracketCount - 1)
  ELSE vecLoop(t, q + 1, bracketCount)

RECURSIVE extractEntry(_, _)
\* extractEntry giving up at a '^' that no '{' follows
extractEntry_noRetry(t, start) ==
  LET delta == IndexRune(Slice(t, start, Len(t)), "^") IN
  IF delta < 0 THEN NotFound
  ELSE
    LET i == start + delta
        j == skipSpace(t, i + 1)
    IN
    IF j >= Len(t) \/ At(t, j) # "{" THEN NotFound
    ELSE
      LET m == metaLoop(t, j, 0) IN
      IF m.count # 0 THEN NotFound
      ELSE
        LET metaEnd == m.k
            p == skipSpace(t, metaEnd)
        IN
        IF p >= Len(t) \/ At(t, p) # "[" THEN extractEntry(t, metaEnd)
        ELSE
          LET v == vecLoop(t, p, 0) IN
          IF v.count # 0 THEN NotFound
          ELSE [metaStr |-> Slice(t, j, metaEnd),
                vecStr  |-> Slice(t, p, v.k),
                nextPos |-> v.k,
                ok      |-> TRUE]

\* extractEntry resuming one past the '^' when no '[' follows the map
extractEntry_retryPastCaret(t, start) ==
  LET delta == IndexRune(Slice(t, start, Len(t)), "^") IN
  IF delta < 0 THEN NotFound
  ELSE
    LET i == start + delta
        j == skipSpace(t, i + 1)
    IN
    IF j >= Len(t) \/ At(t, j) # "{" THEN extractEntry(t, i + 1)
    ELSE
      LET m == metaLoop(t, j, 0) IN
      IF m.count # 0 THEN NotFound
      ELSE
        LET metaEnd == m.k
            p == skipSpace(t, metaEnd)
        IN
        IF p >= Len(t) \/ At(t, p) # "[" THEN extractEntry(t, i + 1)
        ELSE
          LET v == vecLoop(t, p, 0) IN
          IF v.count # 0 THEN NotFound
          ELSE [metaStr |-> Slice(t, j, metaEnd),
                vecStr  |-> Slice(t, p, v.k),
                nextPos |-> v.k,
                ok      |-> TRUE]

\* extractEntry handing the offset of the '^' back as nextPos
extractEntry_nextAtCaret(t, start) ==
  LET delta == IndexRune(Slice(t, start, Len(t)), "^") IN
  IF delta < 0 THEN NotFound
  ELSE
    LET i == start + delta
        j == skipSpace(t, i + 1)
    IN
    IF j >= Len(t) \/ At(t, j) # "{" THEN extractEntry(t, i + 1)
    ELSE
      LET m == metaLoop(t, j, 0) IN
      IF m.count # 0 THEN NotFound
      ELSE
        LET metaEnd == m.k
            p == skipSpace(t, metaEnd)
        IN
        IF p >= Len(t) \/ At(t, p) # "[" THEN extractEntry(t, metaEnd)
        ELSE
          LET v == vecLoop(t, p, 0) IN
          IF v.count # 0 THEN NotFound
          ELSE [metaStr |-> Slice(t, j, metaEnd),
                vecStr  |-> Slice(t, p, v.k),
                nextPos |-> i,
                ok      |-> TRUE]

\* extractEntry finds the next ^{...}[...] pair at or after startPos
extractEntry(t, start) ==
  LET delta == IndexRune(Slice(t, start, Len(t)), "^") IN
  IF delta < 0 THEN NotFound
  ELSE
    LET i == start + delta
        j == skipSpace(t, i + 1)
    IN
    IF j >= Len(t) \/ At(t, j) # "{" THEN extractEntry(t, i + 1)
    ELSE
      LET m == metaLoop(t, j, 0) IN
      IF m.count # 0 THEN NotFound
      ELSE
        LET metaEnd == m.k
            p == skipSpace(t, metaEnd)
        IN
        IF p >= Len(t) \/ At(t, p) # "[" THEN extractEntry(t, metaEnd)
        ELSE
          LET v == vecLoop(t, p, 0) IN
          IF v.count # 0 THEN NotFound
          ELSE [metaStr |-> Slice(t, j, metaEnd),
                vecStr  |-> Slice(t, p, v.k),
                nextPos |-> v.k,
                ok      |-> TRUE]

(* ------------------------- lexical units ------------------------------- *)

\* A file text is the sequence of its lexical units: every delimiter and
\* every whitespace character is a unit of its own, and so is every atom
\* (keyword or string literal).  extractEntry only tells '^', '{', '}', '[',
\* ']' and whitespace from the rest, so it reads a unit as it reads a byte.
Atoms ==
  { ":!Ta",
    ":!Tb",
    ":!Of1",
    ":doc/actions",
    ":program",
    ":action",
    ":exec",
    ":sequence",
    ":rules",
    ":q-mode",
    "\"helix-normal\"",
    "\"micro\"",
    "\"[cmd]\"",
    "\"[:sh ls]\"",
    "\"x\"",
    "\"zellij\"",
    "\"lazygit\"",
    "nil" }

\* the spelling of a unit
Chars(u) ==
  CASE
       u = ":!Ta" -> <<":", "!", "T", "a">>
    [] u = ":!Tb" -> <<":", "!", "T", "b">>
    [] u = ":!Of1" -> <<":", "!", "O", "f", "1">>
    [] u = ":doc/actions" -> <<":", "d", "o", "c", "/", "a", "c", "t", "i", "o", "n", "s">>
    [] u = ":program" -> <<":", "p", "r", "o", "g", "r", "a", "m">>
    [] u = ":action" -> <<":", "a", "c", "t", "i", "o", "n">>
    [] u = ":exec" -> <<":", "e", "x", "e", "c">>
    [] u = ":sequence" -> <<":", "s", "e", "q", "u", "e", "n", "c", "e">>
    [] u = ":rules" -> <<":", "r", "u", "l", "e", "s">>
    [] u = ":q-mode" -> <<":", "q", "-", "m", "o", "d", "e">>
    [] u = "\"helix-normal\"" -> <<"\"", "h", "e", "l", "i", "x", "-", "n", "o", "r", "m", "a", "l", "\"">>
    [] u = "\"micro\"" -> <<"\"", "m", "i", "c", "r", "o", "\"">>
    [] u = "\"[cmd]\"" -> <<"\"", "[", "c", "m", "d", "]", "\"">>
    [] u = "\"[:sh ls]\"" -> <<"\"", "[", ":", "s", "h", " ", "l", "s", "]", "\"">>
    [] u = "\"x\"" -> <<"\"", "x", "\"">>
    [] u = "\"zellij\"" -> <<"\"", "z", "e", "l", "l", "i", "j", "\"">>
    [] u = "\"lazygit\"" -> <<"\"", "l", "a", "z", "y", "g", "i", "t", "\"">>
    [] u = "nil" -> <<"n", "i", "l">>
    [] OTHER -> <<u>>

RECURSIVE Bytes(_)
\* the text byte by byte
Bytes(t) ==
  IF t = <<>> THEN <<>>
  ELSE IF Len(t) = 1 THEN Chars(t[1])
  ELSE LET half == Len(t) \div 2
       IN Bytes(SubSeq(t, 1, half)) \o Bytes(SubSeq(t, half + 1, Len(t)))

\* the spelling of a string literal without its quotes
Lit(u) == SubSeq(Chars(u), 2, Len(Chars(u)) - 1)

(* ----------------------- decoded EDN values ---------------------------- *)

\* any: a keyword (s is its name without ':'), a string, a vector (e holds
\* the elements), a map (e holds key, value, key, value, ...) or nil
Kw(name) == [t |-> "kw", s |-> name, e |-> <<>>]
Str(cs) == [t |-> "str", s |-> cs, e |-> <<>>]
Vec(es) == [t |-> "vec", s |-> <<>>, e |-> es]
Map(kvs) == [t |-> "map", s |-> <<>>, e |-> kvs]
Nil == [t |-> "nil", s |-> <<>>, e |-> <<>>]

\* the value an atom reads as
AtomValue(u) ==
  IF u = "nil" THEN Nil
  ELSE IF Head(Chars(u)) = ":" THEN Kw(Tail(Chars(u)))
  ELSE IF Head(Chars(u)) = "\"" THEN Str(Lit(u))
  ELSE [t |-> "sym", s |-> Chars(u), e |-> <<>>]

ReadFail == [ok |-> FALSE, val |-> Nil, next |-> 0]

RECURSIVE readValue(_, _)
RECURSIVE readItems(_, _, _)

\* the reader of the edn package on the subset grammar: one value starting
\* at offset k, and the offset after it
readValue(t, k) ==
  LET a == skipSpace(t, k) IN
  IF a >= Len(t) THEN ReadFail
  ELSE IF At(t, a) = "[" THEN
         LET r == readItems(t, a + 1, "]") IN
         IF r.ok THEN [ok |-> TRUE, val |-> Vec(r.val), next |-> r.next]
         ELSE ReadFail
  ELSE IF At(t, a) = "{" THEN
         LET r == readItems(t, a + 1, "}") IN
         IF r.ok /\ Len(r.val) % 2 = 0
         THEN [ok |-> TRUE, val |-> Map(r.val), next |-> r.next]
         ELSE ReadFail
  ELSE IF At(t, a) \in {"]", "}", "^"} THEN ReadFail
  ELSE [ok |-> TRUE, val |-> AtomValue(At(t, a)), next |-> a + 1]

\* the values up to the closing delimiter
readItems(t, k, close) ==
  LET a == skipSpace(t, k) IN
  IF a >= Len(t) THEN [ok |-> FALSE, val |-> <<>>, next |-> 0]
  ELSE IF At(t, a) = close THEN [ok |-> TRUE, val |-> <<>>, next |-> a + 1]
  ELSE LET v == readValue(t, a) IN
       IF ~v.ok THEN [ok |-> FALSE, val |-> <<>>, next |-> 0]
       ELSE LET r == readItems(t, v.next, close) IN
            IF ~r.ok THEN [ok |-> FALSE, val |-> <<>>, next |-> 0]
            ELSE [ok |-> TRUE, val |-> <<v.val>> \o r.val, next |-> r.next]

MapKeys(m) == {m.e[x] : x \in {y \in 1..Len(m.e) : y % 2 = 1}}

\* m[key] for a decoded map and a keyword name: Nil when the key is absent
MapGet(m, name) ==
  LET K == {x \in 1..Len(m.e) : x % 2 = 1 /\ m.e[x].t = "kw" /\ m.e[x].s = name}
  IN IF K = {} THEN Nil ELSE m.e[(CHOOSE x \in K : \A y \in K : y <= x) + 1]

MapHas(m, name) ==
  \E x \in 1..Len(m.e) : x % 2 = 1 /\ m.e[x].t = "kw" /\ m.e[x].s = name

\* decodeMetadata: edn.Unmarshal into map[edn.Keyword]any
decodeMetadata(metaStr) ==
  LET r == readValue(metaStr, 0) IN
  IF r.ok /\ r.val.t = "map" /\ \A k \in MapKeys(r.val) : k.t = "kw"
  THEN [err |-> FALSE, val |-> r.val]
  ELSE [err |-> TRUE, val |-> Nil]

\* decodeRule: Decode one value, which has to be a vector
decodeRule(vecStr) ==
  LET r == readValue(vecStr, 0) IN
  IF r.ok /\ r.val.t = "vec"
  THEN [err |-> FALSE, val |-> r.val.e]
  ELSE [err |-> TRUE, val |-> <<>>]

(* ------------------------- strings package ----------------------------- *)

HasPrefix(s, pre) == Len(s) >= Len(pre) /\ SubSeq(s, 1, Len(pre)) = pre

HasSuffix(s, suf) ==
  Len(s) >= Len(suf) /\ SubSeq(s, Len(s) - Len(suf) + 1, Len(s)) = suf

TrimPrefix(s, pre) ==
  IF HasPrefix(s, pre) THEN SubSeq(s, Len(pre) + 1, Len(s)) ELSE s

TrimSuffix(s, suf) ==
  IF HasSuffix(s, suf) THEN SubSeq(s, 1, Len(s) - Len(suf)) ELSE s

RECURSIVE TrimLeft(_)
TrimLeft(s) ==
  IF s # <<>> /\ IsSpace(Head(s)) THEN TrimLeft(Tail(s)) ELSE s

RECURSIVE TrimRight(_)
TrimRight(s) ==
  IF s # <<>> /\ IsSpace(s[Len(s)]) THEN TrimRight(SubSeq(s, 1, Len(s) - 1))
  ELSE s

TrimSpace(s) == TrimRight(TrimLeft(s))

\* strings.Index(s, sub): offset of the first occurrence, -1 if none
Index(s, sub) ==
  LET H == {x \in 0..(Len(s) - Len(sub)) : Slice(s, x, x + Len(sub)) = sub}
  IN IF H = {} THEN -1 ELSE Min(H)

RECURSIVE Join(_, _)
\* strings.Join(parts, sep)
Join(parts, sep) ==
  IF parts = <<>> THEN <<>>
  ELSE IF Len(parts) = 1 THEN parts[1]
  ELSE parts[1] \o sep \o Join(Tail(parts), sep)

AllIn(s, C) == \A x \in 1..Len(s) : s[x] \in C

RECURSIVE Sprint(_)
RECURSIVE SprintAll(_)
RECURSIVE SprintPairs(_)

\* fmt.Sprint of a decoded value
Sprint(v) ==
  CASE v.t = "kw" -> <<":">> \o v.s
    [] v.t = "str" -> v.s
    [] v.t = "sym" -> v.s
    [] v.t = "nil" -> <<"<", "n", "i", "l", ">">>
    [] v.t = "vec" -> <<"[">> \o Join(SprintAll(v.e), <<" ">>) \o <<"]">>
    [] v.t = "map" ->
         <<"m", "a", "p", "[">> \o Join(SprintPairs(v.e), <<" ">>) \o <<"]">>

SprintAll(es) ==
  IF es = <<>> THEN <<>> ELSE <<Sprint(Head(es))>> \o SprintAll(Tail(es))

SprintPairs(kvs) ==
  IF kvs = <<>> THEN <<>>
  ELSE <<Sprint(kvs[1]) \o <<":">> \o Sprint(kvs[2])>>
       \o SprintPairs(SubSeq(kvs, 3, Len(kvs)))

(* ------------------------- binding builder ----------------------------- *)

ModLetters == {"O", "E", "S", "R", "T", "W", "C", "Q"}
Digits == {"0", "1", "2", "3", "4", "5", "6", "7", "8", "9"}
Lower == {"a", "b", "c", "d", "e", "f", "g", "h", "i", "j", "k", "l", "m",
          "n", "o", "p", "q", "r", "s", "t", "u", "v", "w", "x", "y", "z"}

\* stripEDNPrefix trims whitespace and any leading EDN prefix ":!"
stripEDNPrefix(str) ==
  TrimPrefix(TrimPrefix(TrimSpace(str), <<":">>), <<"!">>)

\* rgMatch whose ot pattern takes one modifier letter and lets the key
\* hold the letters of modifiers too
rgMatch_otShortModifier(name, str) ==
  {mk \in {<<SubSeq(str, 1, n), SubSeq(str, n + 1, Len(str))>> : n \in 0..Len(str)} :
     LET m == mk[1]
         k == mk[2]
     IN
     /\ AllIn(m, ModLetters)
     /\ CASE name = "fn" -> /\ m # <<>>
                            /\ Len(k) >= 2 /\ k[1] = "f" /\ AllIn(Tail(k), Digits)
          [] name = "ch" -> m # <<>> /\ Len(k) = 1 /\ k[1] \in Lower
          [] name = "nb" -> m # <<>> /\ Len(k) = 1 /\ k[1] \in Digits
          [] name = "ot" -> /\ Len(m) = 1 /\ k # <<>>
                            /\ AllIn(k, Lower \cup {"_"} \cup ModLetters)
          [] name = "kw" -> /\ HasPrefix(k, <<"#", "P">>) /\ Len(k) >= 3
                            /\ \A x \in 1..Len(k) : k[x] # "\n"}

\* the two groups of a match of str against one pattern of rg: every way to
\* cut str in a modifier group m and a key group k that the pattern accepts
rgMatch(name, str) ==
  {mk \in {<<SubSeq(str, 1, n), SubSeq(str, n + 1, Len(str))>> : n \in 0..Len(str)} :
     LET m == mk[1]
         k == mk[2]
     IN
     /\ AllIn(m, ModLetters)
     /\ CASE name = "fn" -> /\ m # <<>>
                            /\ Len(k) >= 2 /\ k[1] = "f" /\ AllIn(Tail(k), Digits)
          [] name = "ch" -> m # <<>> /\ Len(k) = 1 /\ k[1] \in Lower
          [] name = "nb" -> m # <<>> /\ Len(k) = 1 /\ k[1] \in Digits
          [] name = "ot" -> m # <<>> /\ k # <<>> /\ AllIn(k, Lower \cup {"_"})
          [] name = "kw" -> /\ HasPrefix(k, <<"#", "P">>) /\ Len(k) >= 3
                            /\ \A x \in 1..Len(k) : k[x] # "\n"}

\* the submatches FindStringSubmatch returns for the kw pattern drop "#P"
rgGroups(name, mk) ==
  IF name = "kw" THEN <<mk[1], SubSeq(mk[2], 3, Len(mk[2]))>> ELSE mk

rg == {"fn", "ch", "nb", "ot", "kw"}

\* splitEDNKey: every (modifier, key) the function can return; it ranges over
\* the map rg, whose iteration order Go leaves open
splitEDNKey(raw) ==
  LET str == stripEDNPrefix(raw)
      Hits == UNION {{rgGroups(name, mk) : mk \in rgMatch(name, str)} : name \in rg}
  IN IF Hits = {} THEN {<<<<>>, str>>} ELSE Hits

\* buildKeySequence joins the second element of the rule vector into a string
buildKeySequence(x) ==
  IF x.t = "vec" THEN Join(SprintAll(x.e), <<" ">>) ELSE Sprint(x)

KeySeq(md, m, k) == [Mode |-> md, Modifier |-> m, Key |-> k]

ProgramAction(m) ==
  [Program |-> Sprint(MapGet(m, <<"p", "r", "o", "g", "r", "a", "m">>)),
   Action  |-> Sprint(MapGet(m, <<"a", "c", "t", "i", "o", "n">>)),
   Command |-> Sprint(MapGet(m, <<"e", "x", "e", "c">>))]

kwSequence == <<"s", "e", "q", "u", "e", "n", "c", "e">>
kwDocActions == <<"d", "o", "c", "/", "a", "c", "t", "i", "o", "n", "s">>

RECURSIVE actionsLoop(_, _, _)
\* actionsLoop taking a sequence only while seq is still empty
actionsLoop_firstSequence(acts, actions, seq) ==
  IF acts = <<>> THEN [actions |-> actions, seq |-> seq]
  ELSE LET a == Head(acts) IN
       IF a.t # "map" THEN actionsLoop(Tail(acts), actions, seq)
       ELSE actionsLoop(Tail(acts),
                        Append(actions, ProgramAction(a)),
                        IF MapGet(a, kwSequence).t # "nil" /\ seq = <<>>
                        THEN Sprint(MapGet(a, kwSequence)) ELSE seq)

\* the loop over acts in parseBindingEntry: the actions and seq it ends with
actionsLoop(acts, actions, seq) ==
  IF acts = <<>> THEN [actions |-> actions, seq |-> seq]
  ELSE LET a == Head(acts) IN
       IF a.t # "map" THEN actionsLoop(Tail(acts), actions, seq)
       ELSE actionsLoop(Tail(acts),
                        Append(actions, ProgramAction(a)),
                        IF MapGet(a, kwSequence).t # "nil"
                        THEN Sprint(MapGet(a, kwSequence)) ELSE seq)

ReturnNil == [panic |-> FALSE, ptr |-> <<>>]
Panics == [panic |-> TRUE, ptr |-> <<>>]

\* parseBindingEntry building an entry without actions where it has no
\* action list
parseBindingEntry_zeroActions(rawMeta, vec, md) ==
  IF Len(vec) < 2 THEN {ReturnNil}
  ELSE IF vec[1].t # "kw" THEN {Panics}
  ELSE
    LET acts == IF MapGet(rawMeta, kwDocActions).t = "vec"
                THEN MapGet(rawMeta, kwDocActions).e ELSE <<>>
        l == actionsLoop(acts, <<>>, <<>>)
    IN
    { [panic |-> FALSE,
       ptr |-> << [Trigger  |-> KeySeq(md, tr[1], tr[2]),
                   Binding  |-> KeySeq(<<>>, bd[1], bd[2]),
                   Sequence |-> l.seq,
                   Actions  |-> l.actions] >>] :
        tr \in splitEDNKey(vec[1].s),
        bd \in splitEDNKey(buildKeySequence(vec[2])) }

\* parseBindingEntry asserting the type of doc/actions without the ok check
parseBindingEntry_assertsActions(rawMeta, vec, md) ==
  IF Len(vec) < 2 THEN {ReturnNil}
  ELSE IF vec[1].t # "kw" THEN {Panics}
  ELSE IF MapGet(rawMeta, kwDocActions).t # "vec" THEN {Panics}
  ELSE
    LET l == actionsLoop(MapGet(rawMeta, kwDocActions).e, <<>>, <<>>) IN
    { [panic |-> FALSE,
       ptr |-> << [Trigger  |-> KeySeq(md, tr[1], tr[2]),
                   Binding  |-> KeySeq(<<>>, bd[1], bd[2]),
                   Sequence |-> l.seq,
                   Actions  |-> l.actions] >>] :
        tr \in splitEDNKey(vec[1].s),
        bd \in splitEDNKey(buildKeySequence(vec[2])) }

\* parseBindingEntry: the set of its possible outcomes: nil, a pointer to an
\* entry (a one-element sequence), or the panic of the type assertion on
\* vec[0]
parseBindingEntry(rawMeta, vec, md) ==
  IF Len(vec) < 2 THEN {ReturnNil}
  ELSE IF vec[1].t # "kw" THEN {Panics}
  ELSE IF MapGet(rawMeta, kwDocActions).t # "vec" THEN {ReturnNil}
  ELSE
    LET l == actionsLoop(MapGet(rawMeta, kwDocActions).e, <<>>, <<>>) IN
    { [panic |-> FALSE,
       ptr |-> << [Trigger  |-> KeySeq(md, tr[1], tr[2]),
                   Binding  |-> KeySeq(<<>>, bd[1], bd[2]),
                   Sequence |-> l.seq,
                   Actions  |-> l.actions] >>] :
        tr \in splitEDNKey(vec[1].s),
        bd \in splitEDNKey(buildKeySequence(vec[2])) }

\* extractMode: the mode named right under :rules, and whether one of its
\* slice expressions runs past the end of what it slices
extractMode(t) ==
  LET ixSpace == 20
      ruleStart == Index(t, <<":", "r", "u", "l", "e", "s">>)
      sliceRule == Slice(t, ruleStart, ruleStart + ixSpace)
      brOpen == Index(sliceRule, <<"[">>)
      sliceMode == Slice(sliceRule, brOpen, Len(sliceRule))
      startMode == Index(sliceMode, <<":">>)
      endMode == Index(sliceMode, <<"-">>)
  IN
  IF ruleStart < 0 THEN [panic |-> FALSE, mode |-> <<>>]
  ELSE IF ruleStart + ixSpace > Len(t) THEN [panic |-> TRUE, mode |-> <<>>]
  ELSE IF brOpen < 0 THEN [panic |-> FALSE, mode |-> <<>>]
  ELSE IF brOpen + 2 > Len(sliceRule) THEN [panic |-> TRUE, mode |-> <<>>]
  ELSE IF At(sliceRule, brOpen + 1) # ":" THEN [panic |-> FALSE, mode |-> <<>>]
  ELSE IF startMode < 0 \/ endMode < 0 THEN [panic |-> FALSE, mode |-> <<>>]
  ELSE [panic |-> FALSE,
        mode |-> TrimPrefix(Slice(sliceMode, startMode, endMode), <<":">>)]

(* --------------------------- program filter ---------------------------- *)

\* regexp.Compile on the patterns of the model: literal characters, '.',
\* a leading '^' and a trailing '$' compile, an unclosed '(' does not
Compiles(p) == \A x \in 1..Len(p) : p[x] # "("

\* (*Regexp).MatchString: the pattern matches somewhere in s
MatchString(p, s) ==
  LET left == p # <<>> /\ p[1] = "^"
      right == p # <<>> /\ p[Len(p)] = "$"
      body == SubSeq(p, IF left THEN 2 ELSE 1, IF right THEN Len(p) - 1 ELSE Len(p))
  IN \E x \in 0..(Len(s) - Len(body)) :
       /\ left => x = 0
       /\ right => x + Len(body) = Len(s)
       /\ \A y \in 1..Len(body) : body[y] = "." \/ body[y] = s[x + y]

RECURSIVE filterActions(_, _, _)
\* the inner loop of filterByProgram: filtered after ranging over e.Actions
filterActions(actions, progRE, flt) ==
  IF actions = <<>> THEN flt
  ELSE filterActions(Tail(actions), progRE,
                     IF MatchString(progRE, Head(actions).Program)
                     THEN Append(flt, Head(actions)) ELSE flt)

RECURSIVE filterEntries(_, _, _)
\* filterEntries without the len(filtered) > 0 test
filterEntries_keepsEmptied(es, progRE, o) ==
  IF es = <<>> THEN o
  ELSE LET e == Head(es)
           flt == filterActions(e.Actions, progRE, <<>>)
       IN filterEntries(Tail(es), progRE,
                        Append(o, [e EXCEPT !.Actions = flt]))

\* filterEntries keeping the leading actions of an entry, as many as match
filterEntries_keepsLeading(es, progRE, o) ==
  IF es = <<>> THEN o
  ELSE LET e == Head(es)
           flt == filterActions(e.Actions, progRE, <<>>)
       IN filterEntries(Tail(es), progRE,
                        IF Len(flt) > 0
                        THEN Append(o, [e EXCEPT !.Actions =
                                          SubSeq(e.Actions, 1, Len(flt))])
                        ELSE o)

\* the outer loop of filterByProgram: out after ranging over entries
filterEntries(es, progRE, o) ==
  IF es = <<>> THEN o
  ELSE LET e == Head(es)
           flt == filterActions(e.Actions, progRE, <<>>)
       IN filterEntries(Tail(es), progRE,
                        IF Len(flt) > 0
                        THEN Append(o, [e EXCEPT !.Actions = flt]) ELSE o)

RECURSIVE rangeEntries(_, _, _)
\* rangeEntries ranging over pointers to the elements: e.Actions = filtered
\* then writes the element of the caller's slice
rangeEntries_writesElement(es, i, progRE) ==
  IF i > Len(es) THEN es
  ELSE LET flt == filterActions(es[i].Actions, progRE, <<>>)
       IN rangeEntries(IF Len(flt) > 0 THEN [es EXCEPT ![i].Actions = flt] ELSE es,
                       i + 1, progRE)

\* the caller's slice after the outer loop of filterByProgram, from element
\* i on: e is a copy of the element, so e.Actions = filtered changes the
\* copy and the element stays as it was
rangeEntries(es, i, progRE) ==
  IF i > Len(es) THEN es
  ELSE LET e == es[i]
           flt == filterActions(e.Actions, progRE, <<>>)
           copy == IF Len(flt) > 0 THEN [e EXCEPT !.Actions = flt] ELSE e
       IN rangeEntries([es EXCEPT ![i] = e], i + 1, progRE)

\* filterByProgram without the return on the empty pattern
filterByProgram_noShortcut(es, programFilter) ==
  IF ~Compiles(programFilter)
  THEN [fatal |-> TRUE, out |-> <<>>, entries |-> es]
  ELSE [fatal |-> FALSE, out |-> filterEntries(es, programFilter, <<>>),
        entries |-> rangeEntries(es, 1, programFilter)]

\* filterByProgram: what it returns (out) and the caller's slice after the
\* call (entries), or that it ends the process on a pattern that does not
\* compile
filterByProgram(es, programFilter) ==
  IF programFilter = <<>> THEN [fatal |-> FALSE, out |-> es, entries |-> es]
  ELSE IF ~Compiles(programFilter)
  THEN [fatal |-> TRUE, out |-> <<>>, entries |-> es]
  ELSE [fatal |-> FALSE, out |-> filterEntries(es, programFilter, <<>>),
        entries |-> rangeEntries(es, 1, programFilter)]

(* ------------------------------ commands ------------------------------- *)

strNil == <<"<", "n", "i", "l", ">">>

Meaningful(field) == TrimSpace(field) # <<>> /\ TrimSpace(field) # strNil

\* isEmptyEntry: no action, or no action with a meaningful field
isEmptyEntry(e) ==
  \/ Len(e.Actions) = 0
  \/ \A x \in 1..Len(e.Actions) :
       /\ ~Meaningful(e.Actions[x].Program)
       /\ ~Meaningful(e.Actions[x].Action)
       /\ ~Meaningful(e.Actions[x].Command)

IsEmpty(e) == isEmptyEntry(e)
NotEmpty(e) == ~isEmptyEntry(e)

\* renderSelect without the not-empty test in the default branch
renderSelect_defaultKeepsAll(flt, renderMode) ==
  CASE renderMode = "EMPTY" -> SelectSeq(flt, IsEmpty)
    [] OTHER -> flt

\* renderSelect with the not-empty test in the FULL branch as well
renderSelect_fullSkipsEmpty(flt, renderMode) ==
  CASE renderMode = "EMPTY" -> SelectSeq(flt, IsEmpty)
    [] OTHER -> SelectSeq(flt, NotEmpty)

\* the switch on flags.renderMode in runDisplay
renderSelect(flt, renderMode) ==
  CASE renderMode = "FULL" -> flt
    [] renderMode = "EMPTY" -> SelectSeq(flt, IsEmpty)
    [] OTHER -> SelectSeq(flt, NotEmpty)

\* the fmt.Println(e) of the EMPTY branch, one per filtered entry
printed(flt, renderMode) ==
  IF renderMode = "EMPTY"
  THEN [x \in 1..Len(flt) |->
          [fn |-> "Println", target |-> <<>>, entries |-> <<flt[x]>>, lines |-> <<>>]]
  ELSE <<>>

strHelix == <<"h", "e", "l", "i", "x">>
strMicro == <<"m", "i", "c", "r", "o">>
strLazygit == <<"l", "a", "z", "y", "g", "i", "t">>
helixCommon == strHelix \o <<"-", "c", "o", "m", "m", "o", "n">>
helixInsert == strHelix \o <<"-", "i", "n", "s", "e", "r", "t">>
helixNormal == strHelix \o <<"-", "n", "o", "r", "m", "a", "l">>
helixSelect == strHelix \o <<"-", "s", "e", "l", "e", "c", "t">>

strZellij == <<"z", "e", "l", "l", "i", "j">>
strBroot == <<"b", "r", "o", "o", "t">>
strDefault == <<"d", "e", "f", "a", "u", "l", "t">>

(* ----------------------- lookup tables and keys ------------------------ *)

\* a Go map without keys
EmptyMap == [x \in {} |-> <<>>]

\* m with key set to val, as the assignment m[key] = val leaves it
MapPut(m, key, val) ==
  [x \in DOMAIN m \cup {key} |-> IF x = key THEN val ELSE m[x]]

\* the KeyLookup closures of buildLookupFuncs: local is the program's own
\* section, defaultMap the "default" section, each a map from token to string
KeyLookup(local, defaultMap) == [local |-> local, defaultMap |-> defaultMap]

\* a closure that reads the default section before the program's own
Lookup_defaultFirst(f, key) ==
  IF key \in DOMAIN f.defaultMap THEN f.defaultMap[key]
  ELSE IF key \in DOMAIN f.local THEN f.local[key]
  ELSE key

\* a call of a KeyLookup closure
Lookup(f, key) ==
  IF key \in DOMAIN f.local THEN f.local[key]
  ELSE IF key \in DOMAIN f.defaultMap THEN f.defaultMap[key]
  ELSE key

\* buildLookupFuncs that never sets out["default"] itself
buildLookupFuncs_noDefault(cfg) ==
  LET defaultMap == IF strDefault \in DOMAIN cfg THEN cfg[strDefault] ELSE EmptyMap
  IN [program \in DOMAIN cfg |-> KeyLookup(cfg[program], defaultMap)]

\* buildLookupFuncs: one closure per section of cfg, and always one under
\* "default", which reads the default section only (reading a nil map finds
\* nothing)
buildLookupFuncs(cfg) ==
  LET defaultMap == IF strDefault \in DOMAIN cfg THEN cfg[strDefault] ELSE EmptyMap
  IN [program \in DOMAIN cfg \cup {strDefault} |->
        IF program = strDefault THEN KeyLookup(EmptyMap, defaultMap)
        ELSE KeyLookup(cfg[program], defaultMap)]

helixFamily ==
  LET modes == {helixCommon, helixInsert, helixNormal, helixSelect}
      macosx == <<"m", "a", "c", "o", "s", "x", "-">>
      ubuntu == <<"u", "b", "u", "n", "t", "u", "-">>
  IN modes \cup {macosx \o m : m \in modes} \cup {ubuntu \o m : m \in modes}

\* normalizeProgram: zellij-* is zellij, the helix modes are helix
normalizeProgram(p) ==
  IF HasPrefix(p, strZellij \o <<"-">>) THEN strZellij
  ELSE IF p \in helixFamily THEN strHelix
  ELSE p

\* strconv.Atoi succeeds: an optional sign and then digits only (few enough
\* to fit an int)
AtoiOk(s) ==
  LET d == IF s # <<>> /\ s[1] \in {"+", "-"} THEN Tail(s) ELSE s
  IN d # <<>> /\ AllIn(d, Digits)

\* normalizeFunctionKey returning every key as it is
normalizeFunctionKey_asIs(key) == key

\* normalizeFunctionKey: f1 or F1 becomes F1
normalizeFunctionKey(key) ==
  IF Len(key) > 1 /\ key[1] \in {"f", "F"} /\ AtoiOk(Tail(key))
  THEN <<"F">> \o Tail(key)
  ELSE key

\* pickLookup reading the table under the program as given
pickLookup_asGiven(table, program) ==
  IF program \in DOMAIN table THEN <<table[program]>>
  ELSE IF strDefault \in DOMAIN table THEN <<table[strDefault]>>
  ELSE <<>>

\* the closure formatKeySeq and formatBindingEntry pick: <<>> is the nil
\* func of a table that holds neither the program nor "default"
pickLookup(table, program) ==
  IF normalizeProgram(program) \in DOMAIN table
  THEN <<table[normalizeProgram(program)]>>
  ELSE IF strDefault \in DOMAIN table THEN <<table[strDefault]>>
  ELSE <<>>

\* formatKeySeq joining the modifiers from the last to the first
formatKeySeq_reversed(k, table, program, sep) ==
  LET picked == pickLookup(table, program) IN
  IF picked = <<>> THEN [panic |-> TRUE, out |-> <<>>]
  ELSE
    LET lookup == picked[1]
        n == Len(k.Modifier)
        modParts == [x \in 1..n |-> Lookup(lookup, <<k.Modifier[n + 1 - x]>>)]
        mod == Join(modParts, sep)
        mapped == Lookup(lookup, normalizeFunctionKey(k.Key))
        o == IF mod # <<>> THEN mod \o sep \o mapped ELSE mapped
    IN [panic |-> FALSE,
        out |-> IF k.Mode # <<>>
                THEN <<"(">> \o k.Mode \o <<")", " ">> \o o
                ELSE o]

\* formatKeySeq: the string it returns, or panic when the closure it calls
\* is nil
formatKeySeq(k, table, program, sep) ==
  LET picked == pickLookup(table, program) IN
  IF picked = <<>> THEN [panic |-> TRUE, out |-> <<>>]
  ELSE
    LET lookup == picked[1]
        modParts == [x \in 1..Len(k.Modifier) |-> Lookup(lookup, <<k.Modifier[x]>>)]
        mod == Join(modParts, sep)
        key == normalizeFunctionKey(k.Key)
        mapped == Lookup(lookup, key)
        o == IF mod # <<>> THEN mod \o sep \o mapped ELSE mapped
    IN [panic |-> FALSE,
        out |-> IF k.Mode # <<>>
                THEN <<"(">> \o k.Mode \o <<")", " ">> \o o
                ELSE o]

\* formatBindingEntry: the Sequence of the entry, or without one the key of
\* its Binding, behind the modifiers of the Binding
formatBindingEntry(b, table, program) ==
  LET picked == pickLookup(table, program) IN
  IF picked = <<>> THEN [panic |-> TRUE, out |-> <<>>]
  ELSE
    LET lookup == picked[1]
        key == normalizeFunctionKey(IF b.Sequence = <<>> THEN b.Binding.Key
                                    ELSE b.Sequence)
        modParts == [x \in 1..Len(b.Binding.Modifier) |->
                       Lookup(lookup, <<b.Binding.Modifier[x]>>)]
        mod == Join(modParts, <<"-">>)
    IN [panic |-> FALSE,
        out |-> IF mod # <<>> THEN mod \o <<"-">> \o Lookup(lookup, key)
                ELSE Lookup(lookup, key)]

\* initConfigDirs: the four tables, each built from its config file
initConfigDirs(cfg) ==
  [displayBinding |-> buildLookupFuncs(cfg),
   displayTrigger |-> buildLookupFuncs(cfg),
   interpret      |-> buildLookupFuncs(cfg),
   embed          |-> buildLookupFuncs(cfg)]

strAlt == <<"A", "l", "t">>
strCtrl == <<"C", "t", "r", "l">>
strUnknownApp == <<"u", "n", "k", "n", "o", "w", "n", "-", "a", "p", "p">>

\* the config files of a run of the commands: a section for helix and the
\* default section
RunCfg ==
  (strHelix :> ((<<"T">> :> <<"C">>) @@ (<<"O">> :> <<"A">>))) @@
  (strDefault :> ((<<"T">> :> strCtrl) @@ (<<"O">> :> strAlt)))

NoCall ==
  [fn |-> "", k |-> [Mode |-> <<>>, Modifier |-> <<>>, Key |-> <<>>],
   sequence |-> <<>>, program |-> <<>>, sep |-> <<>>,
   ret |-> [panic |-> FALSE, out |-> <<>>]]

(* ------------------------------ renderers ------------------------------ *)

RECURSIVE TrimLeftSet(_, _)
TrimLeftSet(s, cut) ==
  IF s # <<>> /\ Head(s) \in cut THEN TrimLeftSet(Tail(s), cut) ELSE s

RECURSIVE TrimRightSet(_, _)
TrimRightSet(s, cut) ==
  IF s # <<>> /\ s[Len(s)] \in cut
  THEN TrimRightSet(SubSeq(s, 1, Len(s) - 1), cut) ELSE s

\* strings.Trim(s, cutset)
Trim(s, cut) == TrimRightSet(TrimLeftSet(s, cut), cut)

RECURSIVE Fields(_)
\* strings.Fields(s): the pieces of s between runs of white space
Fields(s) ==
  LET t == TrimLeft(s) IN
  IF t = <<>> THEN <<>>
  ELSE LET stops == {x \in 1..Len(t) : IsSpace(t[x])}
           n == IF stops = {} THEN Len(t) ELSE Min(stops) - 1
       IN <<SubSeq(t, 1, n)>> \o Fields(SubSeq(t, n + 1, Len(t)))

RECURSIVE Escape(_)
\* s with a backslash in front of every double quote and every backslash
Escape(s) ==
  IF s = <<>> THEN <<>>
  ELSE (IF Head(s) \in {"\"", "\\"} THEN <<"\\", Head(s)>> ELSE <<Head(s)>>)
       \o Escape(Tail(s))

\* the verb %q on a string of printable characters
Quote(s) == <<"\"">> \o Escape(s) \o <<"\"">>

RECURSIVE ReplaceQuotes(_)
\* strings.ReplaceAll(cmd, `"`, `\"`)
ReplaceQuotes(s) ==
  IF s = <<>> THEN <<>>
  ELSE (IF Head(s) = "\"" THEN <<"\\", "\"">> ELSE <<Head(s)>>)
       \o ReplaceQuotes(Tail(s))

\* escapeForMbombo that returns the command as it is
escapeForMbombo_asIs(cmd) == cmd

escapeForMbombo(cmd) == ReplaceQuotes(cmd)

\* tomlList that leaves the outer brackets on the value
tomlList_keepsBrackets(raw) ==
  LET inner == TrimSpace(raw)
      parts == Fields(inner)
      quoted == [x \in 1..Len(parts) |-> Quote(parts[x])]
  IN IF HasPrefix(inner, <<":", "s", "h", " ">>)
     THEN <<"[">> \o Quote(inner) \o <<"]">>
     ELSE IF inner = <<>> THEN <<"[", "]">>
     ELSE <<"[">> \o Join(quoted, <<",">>) \o <<"]">>

\* tomlList without the case of the shell commands
tomlList_splitsShell(raw) ==
  LET inner == TrimSuffix(TrimPrefix(TrimSpace(raw), <<"[">>), <<"]">>)
      parts == Fields(inner)
      quoted == [x \in 1..Len(parts) |-> Quote(parts[x])]
  IN IF inner = <<>> THEN <<"[", "]">>
     ELSE <<"[">> \o Join(quoted, <<",">>) \o <<"]">>

\* tomlList: an EDN list as a TOML array
tomlList(raw) ==
  LET inner == TrimSuffix(TrimPrefix(TrimSpace(raw), <<"[">>), <<"]">>)
      parts == Fields(inner)
      quoted == [x \in 1..Len(parts) |-> Quote(parts[x])]
  IN IF HasPrefix(inner, <<":", "s", "h", " ">>)
     THEN <<"[">> \o Quote(inner) \o <<"]">>
     ELSE IF inner = <<>> THEN <<"[", "]">>
     ELSE <<"[">> \o Join(quoted, <<",">>) \o <<"]">>

\* formatBinds: every value of raw as the program wants it
formatBinds(raw, program) ==
  [k \in DOMAIN raw |->
     IF program \in {helixCommon, helixInsert, helixNormal, helixSelect}
     THEN tomlList(raw[k])
     ELSE IF program = strMicro THEN Trim(raw[k], {"[", "]"})
     ELSE raw[k]]

\* programHeaders: every header line is one unit of text
programHeaders ==
  (helixCommon :> <<>>) @@
  (helixInsert :> << <<"[keys.insert]">>, <<"A-ret = [\"completion\"]">>,
                     <<"esc = [\"normal_mode\"]">> >>) @@
  (helixNormal :> << <<"[keys.normal]">>,
                     <<"esc = [\"collapse_selection\", \"keep_primary_selection\"]">>,
                     <<"ret = [\"insert_mode\"]">>, <<"A-ret = [\"hover\"]">> >>) @@
  (helixSelect :> << <<"[keys.select]">>, <<"esc = [\"normal_mode\"]">>,
                     <<"ret = [\"insert_mode\"]">>, <<"A-ret = [\"hover\"]">> >>) @@
  (strMicro :> << <<"\"MouseRight\": \"MouseMultiCursor\",">>,
                  <<"\"AltEnter\": \"Autocomplete\",">> >>)

RECURSIVE actionPairs(_)
\* the (entry, action) pairs in the order the nested loops of a renderer
\* reach them
actionPairs(es) ==
  IF es = <<>> THEN <<>>
  ELSE [x \in 1..Len(Head(es).Actions) |->
          [entry |-> Head(es), act |-> Head(es).Actions[x]]]
       \o actionPairs(Tail(es))

RECURSIVE bindLoop(_, _, _, _)
\* the loops that fill rawBind: rawBind[bindKey] = act.Command for every
\* pair in turn
bindLoop(pairs, table, sep, rawBind) ==
  IF pairs = <<>> THEN [panic |-> FALSE, rawBind |-> rawBind]
  ELSE LET bindKey == formatKeySeq(Head(pairs).entry.Binding, table,
                                   Head(pairs).act.Program, sep)
       IN IF bindKey.panic THEN [panic |-> TRUE, rawBind |-> rawBind]
          ELSE bindLoop(Tail(pairs), table, sep,
                        MapPut(rawBind, bindKey.out, Head(pairs).act.Command))

\* the orders in which a range over a Go map with these keys may visit
\* them: the language leaves the order open, and it differs from run to run
rangeOrders(keys) ==
  {o \in [1..Cardinality(keys) -> keys] :
     \A x, y \in 1..Cardinality(keys) : x # y => o[x] # o[y]}

\* how a renderer call ends: err is "" when it returns, out holds a record
\* of what it wrote, entries is the caller's slice after the call
Ended(msg, es) == [err |-> msg, out |-> <<>>, entries |-> es]

Wrote(fn, target, flt, lines, es) ==
  [err |-> "",
   out |-> <<[fn |-> fn, target |-> target, entries |-> flt, lines |-> lines]>>,
   entries |-> es]

\* the targets emitConfig has a case for
emitTargets == {helixCommon, helixInsert, helixNormal, helixSelect, strMicro}

\* emitConfig: the ways the call can end.  The call gives formatKeySeq no
\* separator; the model takes "-", as formatBindingEntry and the lazygit
\* renderer do.
emitConfig(es, target) ==
  LET f == filterByProgram(es, target)
      b == bindLoop(actionPairs(f.out), lookups.interpret, <<"-">>, EmptyMap)
      formatted == formatBinds(b.rawBind, target)
      headerLines == IF target \in DOMAIN programHeaders
                     THEN programHeaders[target] ELSE <<>>
  IN IF f.fatal THEN {Ended("fatal: invalid --program pattern %q", f.entries)}
     ELSE IF b.panic THEN {Ended("panic: nil func call", f.entries)}
     ELSE IF target \in {helixCommon, helixInsert, helixNormal, helixSelect}
     THEN {Wrote("emitConfig", target, f.out,
                 headerLines \o
                 [x \in 1..Len(o) |-> o[x] \o <<" ", "=", " ">> \o formatted[o[x]]],
                 f.entries) : o \in rangeOrders(DOMAIN formatted)}
     ELSE IF target = strMicro
     THEN {Wrote("emitConfig", target, f.out,
                 << <<"{">> >> \o headerLines \o
                 [x \in 1..Len(o) |->
                    <<" ", " ">> \o Quote(o[x]) \o <<":", " ">>
                    \o Quote(formatted[o[x]]) \o <<",">>] \o
                 << <<"}">> >>,
                 f.entries) : o \in rangeOrders(DOMAIN formatted)}
     ELSE {Ended("fatal: unsupported --program %q", f.entries)}

\* an mbomboReplace as Cmd spells it on the command line
replace(old, new) == <<"--replace ">> \o old \o <<"=", "\"">> \o new \o <<"\"">>

\* formatZellijReplace: the command as it stands in the target file, and
\* the bind line to put in its place
formatZellijReplace(key, act) ==
  LET escapedCmd == Trim(escapeForMbombo(act.Command), {"[", "]"})
  IN replace(<<"\"">> \o escapedCmd \o <<"\"">>,
             <<"        bind ", "\\", "\"">> \o key \o <<"\\", "\"", " ", "{", " ">>
             \o escapedCmd \o <<" ", "}", ":line">>)

RECURSIVE zellijLoop(_, _, _, _)
\* the loops of the zellij case: one replace per (entry, action) pair
zellijLoop(pairs, table, normalized, replaces) ==
  IF pairs = <<>> THEN [panic |-> FALSE, replaces |-> replaces]
  ELSE LET bindKey == formatKeySeq(Head(pairs).entry.Binding, table,
                                   normalized, <<" ">>)
       IN IF bindKey.panic THEN [panic |-> TRUE, replaces |-> replaces]
          ELSE zellijLoop(Tail(pairs), table, normalized,
                          Append(replaces,
                                 formatZellijReplace(bindKey.out, Head(pairs).act)))

\* embedConfig: the ways the call can end
embedConfig(es, target) ==
  LET f == filterByProgram(es, target)
      b == bindLoop(actionPairs(f.out), lookups.embed, <<"-">>, EmptyMap)
      formatted == formatBinds(b.rawBind, target)
      z == zellijLoop(actionPairs(f.out), lookups.embed,
                      normalizeProgram(target), <<>>)
  IN IF f.fatal THEN {Ended("fatal: invalid --program pattern %q", f.entries)}
     ELSE IF target = strBroot THEN {Ended("", f.entries)}
     ELSE IF target = strLazygit
     THEN IF b.panic THEN {Ended("panic: nil func call", f.entries)}
          ELSE {Wrote("mbomboForging", target, f.out,
                      [x \in 1..Len(o) |->
                         replace(formatted[o[x]],
                                 <<" ", " ", " ", " ">> \o formatted[o[x]]
                                 \o <<":", " ", "'", "<">> \o o[x]
                                 \o <<">", "'", ":line">>)],
                      f.entries) : o \in rangeOrders(DOMAIN formatted)}
     ELSE IF HasPrefix(target, strZellij)
     THEN IF z.panic THEN {Ended("panic: nil func call", f.entries)}
          ELSE {Wrote("mbomboForging", target, f.out, z.replaces, f.entries)}
     ELSE {Ended("fatal: unsupported --program %q", f.entries)}

(* ----------------------------- input files ----------------------------- *)

\* the pieces input files are put together from
SegNames == {"G1", "G2", "GG", "SQ", "E0", "NA", "NS", "SV", "NK", "BM", "BV", "DC",
             "UB", "UV"}

Seg(n) ==
  CASE n = "G1" ->  \* one action, with a sequence override
         <<"^", "{", ":doc/actions", " ", "[", "{", ":program", " ",
           "\"helix-normal\"", " ", ":exec", " ", "\"[cmd]\"", " ",
           ":sequence", " ", "\"x\"", "}", "]", "}", " ",
           "[", ":!Ta", " ", ":!Tb", "]", "\n">>
    [] n = "G2" ->  \* the head of a rules clause, then a form with two
                    \* actions and a binding of several keys
         <<":rules", " ", "[", ":q-mode", "\n",
           "^", "{", ":doc/actions", " ", "[",
           "{", ":program", " ", "\"micro\"", " ", ":action", " ", "\"x\"", "}", " ",
           "{", ":program", " ", "\"helix-normal\"", " ", ":exec", " ", "\"[:sh ls]\"", "}",
           "]", "}", "[", ":!Of1", " ", "[", ":!Ta", " ", ":!Tb", "]", "]", "\n">>
    [] n = "GG" ->  \* two rules one after the other
         <<"^", "{", ":doc/actions", " ", "[",
           "{", ":program", " ", "\"micro\"", " ", ":action", " ", "\"x\"", "}",
           "]", "}", "[", ":!Ta", " ", ":!Tb", "]", "\n",
           "^", "{", ":doc/actions", " ", "[",
           "{", ":program", " ", "\"helix-normal\"", " ", ":action", " ", "\"x\"", "}",
           "]", "}", "[", ":!Tb", " ", ":!Ta", "]", "\n">>
    [] n = "SQ" ->  \* one key bound in several programs, twice in zellij,
                    \* with a sequence given twice and given as nil
         <<"^", "{", ":doc/actions", " ", "[",
           "{", ":program", " ", "\"zellij\"", " ", ":exec", " ", "\"[cmd]\"", " ",
                ":sequence", " ", "\"x\"", "}", " ",
           "{", ":program", " ", "\"zellij\"", " ", ":exec", " ", "\"x\"", " ",
                ":sequence", " ", "\"[cmd]\"", "}", " ",
           "{", ":program", " ", "\"lazygit\"", " ", ":exec", " ", "\"x\"", " ",
                ":sequence", " ", "nil", "}", " ",
           "{", ":program", " ", "\"helix-normal\"", " ", ":exec", " ", "\"[:sh ls]\"", "}",
           "]", "}", "[", ":!Of1", " ", ":!Tb", "]", "\n">>
    [] n = "E0" ->  \* an empty action list
         <<"^", "{", ":doc/actions", " ", "[", "]", "}",
           "[", ":!Tb", " ", ":!Ta", "]", "\n">>
    [] n = "NA" ->  \* no doc/actions key
         <<"^", "{", "}", "[", ":!Ta", " ", ":!Tb", "]", "\n">>
    [] n = "NS" ->  \* doc/actions is not a sequence
         <<"^", "{", ":doc/actions", " ", "\"x\"", "}",
           "[", ":!Ta", " ", ":!Tb", "]", "\n">>
    [] n = "SV" ->  \* a vector of one element
         <<"^", "{", ":doc/actions", " ", "[", "]", "}", "[", ":!Ta", "]", "\n">>
    [] n = "NK" ->  \* the first element is a string
         <<"^", "{", ":doc/actions", " ", "[", "]", "}",
           "[", "\"x\"", " ", ":!Tb", "]", "\n">>
    [] n = "BM" ->  \* a map with a key and no value
         <<"^", "{", ":doc/actions", "}", "[", ":!Ta", " ", ":!Tb", "]", "\n">>
    [] n = "BV" ->  \* a vector that holds an unclosed map
         <<"^", "{", "}", "[", ":!Ta", " ", "{", "]", "}", "\n">>
    [] n = "DC" ->  \* a caret on its own, and a caret with a map only
         <<"^", " ", "x", "^", "{", "}", "\n">>
    [] n = "UB" ->  \* a map that is never closed
         <<"^", "{", ":doc/actions", "\n">>
    [] n = "UV" ->  \* a vector that is never closed
         <<"^", "{", "}", "[", ":!Ta", "\n">>

RECURSIVE Concat(_)
Concat(ss) == IF ss = <<>> THEN <<>> ELSE Head(ss) \o Concat(Tail(ss))

RECURSIVE Sum(_)
Sum(ns) == IF ns = <<>> THEN 0 ELSE Head(ns) + Sum(Tail(ns))

\* the text of a file put together from the pieces named
FileText(f) == Concat([x \in 1..Len(f) |-> Seg(f[x])])

\* how many pieces each file of a run holds
Sizes ==
  {ns \in UNION {[1..k -> 1..MaxSegs] : k \in 1..MaxFiles} : Sum(ns) <= MaxSegs}

\* the pieces named cut into files of the sizes given
Cut(names, ns) ==
  [k \in 1..Len(ns) |->
     FileText(SubSeq(names, Sum(SubSeq(ns, 1, k - 1)) + 1,
                     Sum(SubSeq(ns, 1, k))))]

\* the files a run may be given: one empty file, or files of pieces
FileLists ==
  {<< <<>> >>} \cup
  UNION {{Cut(names, ns) : names \in [1..Sum(ns) -> SegNames]} : ns \in Sizes}

(* --------------------- scanner specification --------------------------- *)

ScanAlphabet == {"^", "{", "}", "[", "]", " "}

Prefixes == UNION {[1..n -> ScanAlphabet] : n \in 0..MaxPre}

Bodies ==
  { <<>>,
    <<"^", "{", "}", "[", "]">>,
    <<"^", " ", "{", "[", "}", " ", "[", "{", "]">>,
    <<"^", "{", "{", "}", "}", "[", "[", "]", "]">>,
    <<"^", "{", "}", "[">> }

Suffixes == { <<>>, <<"}">>, <<"]">>, <<"^", "{", "}", "[", "]">> }

ScanTexts == {a \o b \o c : a \in Prefixes, b \in Bodies, c \in Suffixes}

InitScan ==
  /\ text \in ScanTexts
  /\ startPos = 0
  /\ res = NotFound
  /\ pc = "ready"
  /\ files = <<>>
  /\ parsed = <<>>
  /\ all = <<>>
  /\ mode = <<>>
  /\ pos = 0
  /\ entries = <<>>
  /\ origin = <<>>
  /\ ret = <<>>
  /\ flags = NoFlags
  /\ filtered = NoFilter
  /\ out = <<>>
  /\ err = ""
  /\ lookups = initConfigDirs(RunCfg)
  /\ keyCall = NoCall

\* one call extractEntry(text, s) at an arbitrary offset
ScanAt(s) ==
  /\ pc = "ready"
  /\ startPos' = s
  /\ res' = extractEntry(text, s)
  /\ pc' = "scanned"
  /\ UNCHANGED <<text, pipeVars, fmtVars>>

NextScan == \E s \in 0..Len(text) : ScanAt(s)

SpecScan == InitScan /\ [][NextScan]_vars

(* --------------------- key formatter specification --------------------- *)

\* config files: the default section alone, no section at all, sections
\* for helix and zellij without a default section, and RunCfg
cfgDefaultOnly == strDefault :> ((<<"O">> :> strAlt) @@ (<<"T">> :> strCtrl))
cfgHelixZellij ==
  (strHelix :> ((<<"T">> :> <<"C">>) @@ (<<"F", "1">> :> <<"<", "f", "1", ">">>))) @@
  (strZellij :> (<<"T">> :> strCtrl))

\* a helix section that leaves O to the default section and maps the
\* lowercase f1, next to a default section that maps F1
cfgHelixPartial ==
  (strHelix :> ((<<"T">> :> <<"C">>) @@ (<<"f", "1">> :> <<"l", "o">>))) @@
  (strDefault :> ((<<"T">> :> strCtrl) @@ (<<"O">> :> strAlt) @@
                  (<<"F", "1">> :> <<"u", "p">>)))

\* a default section that maps T to the empty string
cfgSilent == strDefault :> ((<<"T">> :> <<>>) @@ (<<"O">> :> strAlt))

Configs ==
  {EmptyMap, cfgDefaultOnly, cfgHelixZellij, cfgHelixPartial, cfgSilent, RunCfg}

FormatPrograms ==
  {strUnknownApp, helixNormal, strHelix, strZellij \o <<"-", "x">>, strDefault}

FormatKeys ==
  {[Mode |-> md, Modifier |-> m, Key |-> k] :
     md \in {<<>>, <<"q">>},
     m \in {<<>>, <<"T">>, <<"O", "T">>, <<"T", "O">>, <<"T", "T">>},
     k \in {<<"b">>, <<"f", "1">>, <<"f">>, <<"f", "x">>}}

InitFormat ==
  /\ \E cfg \in Configs, k \in FormatKeys, program \in FormatPrograms,
        sep \in {<<"-">>, <<" ">>}, sequence \in {<<>>, <<"x">>} :
       /\ lookups = initConfigDirs(cfg)
       /\ keyCall = [NoCall EXCEPT !.k = k, !.program = program, !.sep = sep,
                                   !.sequence = sequence]
  /\ text = <<>>
  /\ startPos = 0
  /\ res = NotFound
  /\ pc = "ready"
  /\ files = <<>>
  /\ parsed = <<>>
  /\ all = <<>>
  /\ mode = <<>>
  /\ pos = 0
  /\ entries = <<>>
  /\ origin = <<>>
  /\ ret = <<>>
  /\ flags = NoFlags
  /\ filtered = NoFilter
  /\ out = <<>>
  /\ err = ""

\* one call formatKeySeq(k, lookups.embed, program, sep)
FormatKeySeq ==
  /\ pc = "ready"
  /\ keyCall' = [keyCall EXCEPT
                   !.fn = "formatKeySeq",
                   !.ret = formatKeySeq(keyCall.k, lookups.embed,
                                        keyCall.program, keyCall.sep)]
  /\ pc' = IF keyCall'.ret.panic THEN "crashed" ELSE "formatted"
  /\ UNCHANGED <<text, startPos, res, pipeVars, lookups>>

\* one call formatBindingEntry(b, lookups.displayBinding, program)
FormatBindingEntry ==
  /\ pc = "ready"
  /\ keyCall' = [keyCall EXCEPT
                   !.fn = "formatBindingEntry",
                   !.ret = formatBindingEntry(
                             [Binding |-> keyCall.k, Sequence |-> keyCall.sequence],
                             lookups.displayBinding, keyCall.program)]
  /\ pc' = IF keyCall'.ret.panic THEN "crashed" ELSE "formatted"
  /\ UNCHANGED <<text, startPos, res, pipeVars, lookups>>

NextFormat == FormatKeySeq \/ FormatBindingEntry

SpecFormat == InitFormat /\ [][NextFormat]_vars

(* --------------------- renderer value specification -------------------- *)

\* how many pieces the inside of a raw command value is put together from
MaxToks == 3

strShellScenario ==
  <<"[", ":", "s", "h", " ", "e", "c", "h", "o", " ", "h", "i", "]">>

\* what a config may give as exec: values in brackets, with white space
\* around them or without, and values without brackets
RawValues ==
  LET pieces == {<<"a">>, <<"b", "\"">>, <<" ">>, <<":", "s", "h">>, <<"[">>, <<"]">>}
      insides == UNION {{Concat(ps) : ps \in [1..n -> pieces]} : n \in 0..MaxToks}
  IN {<<"[">> \o i \o <<"]">> : i \in insides} \cup
     {<<" ", "[">> \o i \o <<"]", "\n">> : i \in insides} \cup
     insides \cup {strShellScenario}

\* the key strings formatKeySeq hands the zellij renderer
BindKeys == {<<"C", "t", "r", "l", " ", "b">>, <<"F", "1">>}

InitRender ==
  /\ text \in RawValues
  /\ \E key \in BindKeys :
       keyCall = [NoCall EXCEPT !.fn = "formatKeySeq", !.sep = <<" ">>,
                                !.program = strZellij, !.ret.out = key]
  /\ lookups = initConfigDirs(RunCfg)
  /\ startPos = 0
  /\ res = NotFound
  /\ pc = "ready"
  /\ files = <<>>
  /\ parsed = <<>>
  /\ all = <<>>
  /\ mode = <<>>
  /\ pos = 0
  /\ entries = <<>>
  /\ origin = <<>>
  /\ ret = <<>>
  /\ flags = NoFlags
  /\ filtered = NoFilter
  /\ out = <<>>
  /\ err = ""

\* one call tomlList(raw) with the text as raw
TomlList ==
  /\ pc = "ready"
  /\ out' = <<[fn |-> "tomlList", target |-> helixNormal, entries |-> <<>>,
               lines |-> <<tomlList(text)>>]>>
  /\ pc' = "formatted"
  /\ UNCHANGED <<text, startPos, res, files, parsed, all, mode, pos, entries,
                 origin, ret, flags, filtered, err, fmtVars>>

\* one call formatZellijReplace(bindKey, act) with the text as act.Command
FormatZellijReplace ==
  /\ pc = "ready"
  /\ out' = <<[fn |-> "formatZellijReplace", target |-> strZellij,
               entries |-> <<>>,
               lines |-> <<formatZellijReplace(
                             keyCall.ret.out,
                             [Program |-> strZellij, Action |-> <<>>,
                              Command |-> text])>>]>>
  /\ pc' = "formatted"
  /\ UNCHANGED <<text, startPos, res, files, parsed, all, mode, pos, entries,
                 origin, ret, flags, filtered, err, fmtVars>>

NextRender == TomlList \/ FormatZellijReplace

SpecRender == InitRender /\ [][NextRender]_vars

(* ------------------------- run specification --------------------------- *)

\* what --program is given as to display, "" included
Patterns ==
  { <<>>, strHelix, <<"^">> \o strMicro \o <<"$">>, <<"n", ".", "r">>,
    <<"z">>, <<"(">> }

\* what --program is given as to interpret; preInterpret refuses ""
Targets == {strHelix, helixNormal, strMicro, strLazygit}

\* what --program is given as to embed; preEmbed refuses ""
EmbedTargets == {strLazygit, strZellij, strBroot, strMicro}

RenderModes == {"DEFAULT", "EMPTY", "FULL"}

Init ==
  /\ files \in FileLists
  /\ pc = "files"
  /\ text = <<>>
  /\ startPos = 0
  /\ res = NotFound
  /\ parsed = <<>>
  /\ all = <<>>
  /\ mode = <<>>
  /\ pos = 0
  /\ entries = <<>>
  /\ origin = <<>>
  /\ ret = <<>>
  /\ flags = NoFlags
  /\ filtered = NoFilter
  /\ out = <<>>
  /\ err = ""
  /\ lookups = initConfigDirs(RunCfg)
  /\ keyCall = NoCall

\* the message logged without ending the process
Crash_logsOnly(msg) == pc' = "scan" /\ err' = msg

\* log.Fatalf, or a panic nothing recovers: the process ends
Crash(msg) == pc' = "crashed" /\ err' = msg

\* the entries of a file put in front of those of the files before it
appendAll_prepends(a, es) == es \o a

\* all = append(all, entries...)
appendAll(a, es) == a \o es

\* parseEDNFiles takes the next path: parseEDNFile loads the text, extracts
\* the mode and enters parseBindingEntries
ParseEDNFile ==
  /\ pc = "files"
  /\ Len(parsed) < Len(files)
  /\ LET t == files[Len(parsed) + 1]
         m == extractMode(Bytes(t))
     IN
     /\ text' = t
     /\ IF m.panic
        THEN Crash("panic: slice bounds out of range") /\ mode' = <<>>
        ELSE pc' = "scan" /\ err' = err /\ mode' = m.mode
  /\ pos' = 0
  /\ entries' = <<>>
  /\ origin' = <<>>
  /\ startPos' = 0
  /\ res' = NotFound
  /\ ret' = <<>>
  /\ UNCHANGED <<files, parsed, all, flags, filtered, out>>
  /\ UNCHANGED fmtVars

\* one turn of the loop of parseBindingEntries
Iterate ==
  /\ pc = "scan"
  /\ LET r == extractEntry(text, pos)
         meta == decodeMetadata(r.metaStr)
         vec == decodeRule(r.vecStr)
     IN
     /\ startPos' = pos
     /\ res' = r
     /\ IF ~r.ok
        THEN /\ pc' = "ret"
             /\ UNCHANGED <<pos, entries, origin, ret, err>>
        ELSE
          /\ pos' = r.nextPos
          /\ IF meta.err
             THEN /\ Crash("fatal: EDN metadata unmarshal error")
                  /\ UNCHANGED <<entries, origin, ret>>
             ELSE IF vec.err
             THEN /\ Crash("fatal: EDN rule decode error")
                  /\ UNCHANGED <<entries, origin, ret>>
             ELSE \E o \in parseBindingEntry(meta.val, vec.val, mode) :
                    IF o.panic
                    THEN /\ Crash("panic: interface conversion")
                         /\ UNCHANGED <<entries, origin, ret>>
                    ELSE /\ ret' = o.ptr
                         /\ entries' = entries \o o.ptr
                         /\ origin' = IF o.ptr = <<>> THEN origin
                                      ELSE Append(origin, r.nextPos)
                         /\ UNCHANGED <<pc, err>>
  /\ UNCHANGED <<text, files, parsed, all, mode, flags, filtered, out>>
  /\ UNCHANGED fmtVars

\* parseBindingEntries and parseEDNFile return, and their locals end with
\* them; parseEDNFiles appends the entries returned
ReturnFile ==
  /\ pc = "ret"
  /\ all' = appendAll(all, entries)
  /\ parsed' = Append(parsed, entries)
  /\ pc' = "files"
  /\ text' = <<>>
  /\ mode' = <<>>
  /\ pos' = 0
  /\ entries' = <<>>
  /\ origin' = <<>>
  /\ startPos' = 0
  /\ res' = NotFound
  /\ ret' = <<>>
  /\ UNCHANGED <<files, flags, filtered, out, err>>
  /\ UNCHANGED fmtVars

Parsed == pc = "files" /\ Len(parsed) = Len(files)

\* runDisplay after parseEDNFiles: filter, select by render mode, emitTable
RunDisplay ==
  /\ Parsed
  /\ \E prog \in Patterns, rm \in RenderModes :
       LET f == filterByProgram(all, prog) IN
       /\ flags' = [command |-> "display", program |-> prog, renderMode |-> rm]
       /\ all' = f.entries
       /\ IF f.fatal
          THEN /\ Crash("fatal: invalid --program pattern %q")
               /\ UNCHANGED <<filtered, out>>
          ELSE /\ filtered' = [programFilter |-> prog, out |-> f.out]
               /\ out' = printed(f.out, rm) \o
                         <<[fn |-> "emitTable", target |-> prog,
                            entries |-> renderSelect(f.out, rm), lines |-> <<>>]>>
               /\ pc' = "done"
               /\ err' = err
  /\ UNCHANGED <<text, startPos, res, files, parsed, mode, pos,
                 entries, origin, ret>>
  /\ UNCHANGED fmtVars

\* the line fmt.Fprintln(cmd.OutOrStdout()) writes
blankLine ==
  [fn |-> "Fprintln", target |-> <<>>, entries |-> <<>>, lines |-> << <<>> >>]

RECURSIVE emitAll(_, _)
\* the loop of runInterpret over the helix targets: emitConfig and a blank
\* line for each in turn
emitAll(es, subs) ==
  IF subs = <<>> THEN {Ended("", es)}
  ELSE UNION {
         IF o.err # "" THEN {o}
         ELSE {[r EXCEPT !.out = o.out \o <<blankLine>> \o r.out] :
                 r \in emitAll(o.entries, Tail(subs))}
         : o \in emitConfig(es, Head(subs))}

\* what a renderer call made of the run
Rendered(prog, o) ==
  /\ filtered' = [programFilter |-> prog,
                  out |-> filterByProgram(all, prog).out]
  /\ all' = o.entries
  /\ out' = o.out
  /\ IF o.err # "" THEN Crash(o.err) ELSE pc' = "done" /\ err' = err

\* runInterpret after parseEDNFiles: emitConfig for the target, or for the
\* four helix targets in turn
RunInterpret ==
  /\ Parsed
  /\ \E prog \in Targets :
       /\ flags' = [command |-> "interpret", program |-> prog, renderMode |-> ""]
       /\ IF prog = strHelix
          THEN \E o \in emitAll(all, <<helixCommon, helixInsert,
                                       helixNormal, helixSelect>>) :
                 Rendered(helixSelect, o)
          ELSE \E o \in emitConfig(all, prog) : Rendered(prog, o)
  /\ UNCHANGED <<text, startPos, res, files, parsed, mode, pos,
                 entries, origin, ret>>
  /\ UNCHANGED fmtVars

\* runEmbed after parseEDNFiles: embedConfig for the target
RunEmbed ==
  /\ Parsed
  /\ \E prog \in EmbedTargets :
       /\ flags' = [command |-> "embed", program |-> prog, renderMode |-> ""]
       /\ \E o \in embedConfig(all, prog) : Rendered(prog, o)
  /\ UNCHANGED <<text, startPos, res, files, parsed, mode, pos,
                 entries, origin, ret>>
  /\ UNCHANGED fmtVars

Next ==
  \/ ParseEDNFile
  \/ Iterate
  \/ ReturnFile
  \/ RunDisplay
  \/ RunInterpret
  \/ RunEmbed

Spec == Init /\ [][Next]_vars

(* ---------------------- key split specification ------------------------ *)

\* the most characters behind the prefix of a key handed to splitEDNKey
MaxKey == 4

\* keys with and without the EDN prefix, of modifier letters, lowercase
\* letters, digits and the keyword mark
KeyStrings ==
  LET alphabet == {"O", "T", "f", "a", "1", "#", "P"}
      prefixes == {<<>>, <<":", "!">>, <<" ", ":">>}
  IN {p \o b : p \in prefixes,
               b \in UNION {[1..n -> alphabet] : n \in 0..MaxKey}}

InitSplit ==
  /\ text \in KeyStrings
  /\ startPos = 0
  /\ res = NotFound
  /\ pc = "ready"
  /\ files = <<>>
  /\ parsed = <<>>
  /\ all = <<>>
  /\ mode = <<>>
  /\ pos = 0
  /\ entries = <<>>
  /\ origin = <<>>
  /\ ret = <<>>
  /\ flags = NoFlags
  /\ filtered = NoFilter
  /\ out = <<>>
  /\ err = ""
  /\ lookups = initConfigDirs(RunCfg)
  /\ keyCall = NoCall

\* one call splitEDNKey(text), with one of the results the order of the
\* range over rg can give
SplitEDNKey ==
  /\ pc = "ready"
  /\ \E mk \in splitEDNKey(text) :
       keyCall' = [NoCall EXCEPT !.fn = "splitEDNKey",
                                 !.k = KeySeq(<<>>, mk[1], mk[2])]
  /\ pc' = "formatted"
  /\ UNCHANGED <<text, startPos, res, pipeVars, lookups>>

NextSplit == SplitEDNKey

SpecSplit == InitSplit /\ [][NextSplit]_vars

(* ---------------------- mode specification ----------------------------- *)

\* the most spaces put behind ":rules" and at the end of a text
MaxGap == 14

\* texts with a :rules clause, its '[' and the end of the text at every
\* distance of the clause, and two texts without the clause
ModeTexts ==
  LET spaces(n) == [x \in 1..n |-> " "]
      heads == {<<>>, <<":", "q", "-", "m">>, <<":", "q">>, <<"q", "-">>}
  IN {pre \o <<":", "r", "u", "l", "e", "s">> \o spaces(n) \o br \o head
      \o spaces(m) :
        pre \in {<<>>, <<"{">>}, n \in 0..MaxGap, br \in {<<>>, <<"[">>},
        head \in heads, m \in 0..MaxGap}
     \cup {<<>>, <<"{", "}">>}

InitMode ==
  /\ text \in ModeTexts
  /\ startPos = 0
  /\ res = NotFound
  /\ pc = "ready"
  /\ files = <<>>
  /\ parsed = <<>>
  /\ all = <<>>
  /\ mode = <<>>
  /\ pos = 0
  /\ entries = <<>>
  /\ origin = <<>>
  /\ ret = <<>>
  /\ flags = NoFlags
  /\ filtered = NoFilter
  /\ out = <<>>
  /\ err = ""
  /\ lookups = initConfigDirs(RunCfg)
  /\ keyCall = NoCall

\* parseEDNFile calls extractMode(text); a slice out of range is a panic
\* that nothing recovers
ExtractMode ==
  /\ pc = "ready"
  /\ LET m == extractMode(text)
     IN IF m.panic
        THEN Crash("panic: slice bounds out of range") /\ mode' = <<>>
        ELSE pc' = "scan" /\ err' = err /\ mode' = m.mode
  /\ UNCHANGED <<text, startPos, res, files, parsed, all, pos, entries,
                 origin, ret, flags, filtered, out>>
  /\ UNCHANGED fmtVars

NextMode == ExtractMode

SpecMode == InitMode /\ [][NextMode]_vars

(* ---------------------- driver loop specification ---------------------- *)

\* the most pieces a text of the loop specification is put together from
MaxForms == 3

\* texts of single characters, maps behind a '^' and complete forms
LoopTexts ==
  LET pieces == { <<"^">>, <<" ">>, <<"{">>, <<"}">>, <<"[">>, <<"]">>,
                  <<"^", "{", "}">>,
                  <<"^", "{", "}", "[", "]">> }
  IN UNION {{Concat(ps) : ps \in [1..n -> pieces]} : n \in 0..MaxForms}

InitLoop ==
  /\ text \in LoopTexts
  /\ startPos = 0
  /\ res = NotFound
  /\ pc = "ready"
  /\ files = <<>>
  /\ parsed = <<>>
  /\ all = <<>>
  /\ mode = <<>>
  /\ pos = 0
  /\ entries = <<>>
  /\ origin = <<>>
  /\ ret = <<>>
  /\ flags = NoFlags
  /\ filtered = NoFilter
  /\ out = <<>>
  /\ err = ""
  /\ lookups = initConfigDirs(RunCfg)
  /\ keyCall = NoCall

\* parseBindingEntries(text, mode) is entered: no entries, pos at 0
ParseBindingEntries ==
  /\ pc = "ready"
  /\ pc' = "scan"
  /\ pos' = 0
  /\ entries' = <<>>
  /\ origin' = <<>>
  /\ UNCHANGED <<text, startPos, res, files, parsed, all, mode, ret, flags,
                 filtered, out, err>>
  /\ UNCHANGED fmtVars

NextLoop ==
  \/ \E s \in 0..Len(text) : ScanAt(s)
  \/ ParseBindingEntries
  \/ Iterate

SpecLoop == InitLoop /\ [][NextLoop]_vars

(* ------------- rule forms, stated without the scanner's loops ---------- *)

\* openers minus closers among the offsets a..b
Depth(t, a, b, open, close) ==
  Cardinality({x \in a..b : At(t, x) = open}) -
  Cardinality({x \in a..b : At(t, x) = close})

\* offset just past the closer matching the opener at offset a, -1 if none:
\* the first offset past a with as many closers as openers since a.  The
\* count changes at openers and closers only, so past a + 1 these are the
\* offsets to look at.
MatchEnd(t, a, open, close) ==
  LET E == {e \in (a + 1)..Len(t) :
              /\ e = a + 1 \/ At(t, e - 1) \in {open, close}
              /\ Depth(t, a, e - 1, open, close) = 0}
  IN IF E = {} THEN -1 ELSE Min(E)

\* first offset at or after a that does not hold whitespace (Len(t) if none)
AfterSpace(t, a) ==
  Min({j \in a..Len(t) : j = Len(t) \/ ~IsSpace(At(t, j))})

IsOpen(t, j, open) == j < Len(t) /\ At(t, j) = open

MapStart(t, c) == AfterSpace(t, c + 1)
MapEnd(t, c) == MatchEnd(t, MapStart(t, c), "{", "}")
VecStart(t, c) == AfterSpace(t, MapEnd(t, c))
VecEnd(t, c) == MatchEnd(t, VecStart(t, c), "[", "]")

\* a well-formed ^{meta}[vec] pair starts at offset c
IsPair(t, c) ==
  /\ c < Len(t) /\ At(t, c) = "^"
  /\ IsOpen(t, MapStart(t, c), "{")
  /\ MapEnd(t, c) # -1
  /\ IsOpen(t, VecStart(t, c), "[")
  /\ VecEnd(t, c) # -1

\* what the scanner is to return for the pair at offset c
PairResult(t, c) ==
  [metaStr |-> Slice(t, MapStart(t, c), MapEnd(t, c)),
   vecStr  |-> Slice(t, VecStart(t, c), VecEnd(t, c)),
   nextPos |-> VecEnd(t, c),
   ok      |-> TRUE]

Carets(t, a, b) == {c \in a..b : c < Len(t) /\ At(t, c) = "^"}

\* the '^' at c is not followed, after whitespace, by '{'
NoMapAfter(t, c) == ~IsOpen(t, MapStart(t, c), "{")

\* the '^' at c is followed by a balanced map that is not followed by '['
MapWithoutVec(t, c) ==
  /\ IsOpen(t, MapStart(t, c), "{")
  /\ MapEnd(t, c) # -1
  /\ ~IsOpen(t, VecStart(t, c), "[")

\* the '{' after the '^' at c never closes
OpenMap(t, c) == IsOpen(t, MapStart(t, c), "{") /\ MapEnd(t, c) = -1

\* the map after the '^' at c is complete, the '[' after it never closes
OpenVec(t, c) ==
  /\ IsOpen(t, MapStart(t, c), "{")
  /\ MapEnd(t, c) # -1
  /\ IsOpen(t, VecStart(t, c), "[")
  /\ VecEnd(t, c) = -1

\* first '^' at or after offset a, -1 if none
FirstCaret(t, a) ==
  IF Carets(t, a, Len(t)) = {} THEN -1 ELSE Min(Carets(t, a, Len(t)))

\* the first well-formed pair starting at or after a, NotFound if none
FirstPairFrom(t, a) ==
  LET P == {c \in a..Len(t) : IsPair(t, c)}
  IN IF P = {} THEN NotFound ELSE PairResult(t, Min(P))

(* ------------------------------ claims --------------------------------- *)

Scanned == pc = "scanned"

\* C1 (as stated): for every well-formed pair at or after the start offset
\* with no earlier well-formed pair in between, whatever text surrounds it,
\* extractEntry returns exactly that pair and the offset past its ']'.
C1_AnySurroundingText ==
  Scanned =>
    \A p \in startPos..Len(text) :
      (IsPair(text, p) /\ \A e \in startPos..(p - 1) : ~IsPair(text, e))
        => res = PairResult(text, p)

\* a '^' before the pair at p that the scanner steps over without giving up
\* and without skipping the pair
Skippable(t, c, p) ==
  \/ NoMapAfter(t, c)
  \/ MapWithoutVec(t, c) /\ MapEnd(t, c) <= p

\* C1 (amended): extractEntry returns exactly the pair at p and the offset
\* past its ']' when every '^' between the start offset and p is either not
\* followed by '{', or followed by a balanced map that ends at or before p
\* and is not followed by '['.
C1_PairFoundPastDecoys ==
  Scanned =>
    \A p \in startPos..Len(text) :
      (IsPair(text, p) /\
       \A c \in Carets(text, startPos, p - 1) : Skippable(text, c, p))
        => res = PairResult(text, p)

\* C1 witness: a pair found behind a decoy '^' and a decoy '^{...}'
C1_Witness ==
  /\ Scanned
  /\ \E p \in startPos..Len(text) :
       /\ IsPair(text, p)
       /\ \A c \in Carets(text, startPos, p - 1) : Skippable(text, c, p)
       /\ \E c \in Carets(text, startPos, p - 1) : NoMapAfter(text, c)
       /\ res = PairResult(text, p)
       /\ res.nextPos = p + 5
  /\ Len(text) > res.nextPos

Last(q) == q[Len(q)]

\* the rule form the next turn of the loop extracts, and its decoding
NextForm == extractEntry(text, pos)
NextMeta == decodeMetadata(NextForm.metaStr)
NextVec == decodeRule(NextForm.vecStr)

\* the next turn of the loop gets a form that decodes
Decodes == pc = "scan" /\ NextForm.ok /\ ~NextMeta.err /\ ~NextVec.err

\* the vector has at least two elements and a keyword first
ValidVec(vec) == Len(vec) >= 2 /\ vec[1].t = "kw"

\* the loop goes on to the next turn: no error, no return
GoesOn == pc' = "scan" /\ err' = "" /\ pos' = res'.nextPos

DecodeErrs ==
  {"fatal: EDN metadata unmarshal error", "fatal: EDN rule decode error"}

\* the entries one rule form of t can be built to, given the pair's offset
BuiltFrom(t, c) ==
  LET f == PairResult(t, c)
      built == parseBindingEntry(decodeMetadata(f.metaStr).val,
                                 decodeRule(f.vecStr).val,
                                 extractMode(Bytes(t)).mode)
  IN {o.ptr : o \in built}

\* scanning from offset a ends at a '^' whose '{' or '[' is left open
GivesUpAt(t, a) ==
  \E c \in Carets(t, a, Len(t)) :
    /\ OpenMap(t, c) \/ OpenVec(t, c)
    /\ \A d \in Carets(t, a, c - 1) : Skippable(t, d, c)

\* C3: every extractEntry call of the loop starts at the nextPos the call
\* before it returned (the first at 0); the entries of a file stand in the
\* order of their rule forms in the text; and parseEDNFiles holds the
\* per-file lists concatenated in the order of the paths.
C3_SourceOrder ==
  /\ [][pc = "scan" => startPos' = (IF res.ok THEN res.nextPos ELSE 0)]_vars
  /\ [](/\ Len(origin) = Len(entries)
        /\ \A x \in 1..Len(origin) :
             /\ x > 1 => origin[x - 1] < origin[x]
             /\ \E c \in Carets(text, 0, origin[x]) :
                  /\ IsPair(text, c)
                  /\ VecEnd(text, c) = origin[x]
                  /\ <<entries[x]>> \in BuiltFrom(text, c))
  /\ [](all = Concat(parsed))

\* C3 witness: two files parsed, the first to two different entries, the
\* second to something else
C3_Witness ==
  /\ Len(parsed) = 2
  /\ Len(parsed[1]) = 2
  /\ parsed[1][1] # parsed[1][2]
  /\ parsed[2] # <<>>
  /\ parsed[2] # parsed[1]
  /\ all = parsed[1] \o parsed[2]

\* C4: when the scan ends at a '{' or '[' left open to the end of the text,
\* extractEntry returns not-found, the loop ends without an error, and the
\* entries collected so far are what parseBindingEntries returns.
C4_OpenDelimiterEndsScan ==
  /\ [][(pc = "scan" /\ GivesUpAt(text, pos))
          => (~res'.ok /\ pc' = "ret" /\ err' = "" /\ entries' = entries)]_vars
  /\ [][pc = "ret"
          => (pc' = "files" /\ err' = "" /\ Last(parsed') = entries)]_vars

\* C4 witness: the loop has ended at an unclosed vector with entries in hand
C4_Witness ==
  /\ pc = "ret"
  /\ entries # <<>>
  /\ \E c \in Carets(text, pos, Len(text)) : OpenVec(text, c)
  /\ GivesUpAt(text, pos)
  /\ ~res.ok

\* C5: whenever the decoded vector has fewer than two elements or its first
\* element is not a keyword, parseBindingEntry returns nil, nothing crashes,
\* and the loop goes on with the next rule form.
C5_MalformedVectorSkipped ==
  [][(Decodes /\ ~ValidVec(NextVec.val))
       => (ret' = <<>> /\ entries' = entries /\ GoesOn)]_vars

\* the metadata has no doc/actions key, or a value there that is no sequence
NoActionList(meta) == MapGet(meta, kwDocActions).t # "vec"

\* the latest turn of the loop was given a valid vector and metadata without
\* an action list
BuiltWithoutActions ==
  /\ pc \in {"scan", "crashed"}
  /\ res.ok
  /\ ~decodeMetadata(res.metaStr).err
  /\ ~decodeRule(res.vecStr).err
  /\ ValidVec(decodeRule(res.vecStr).val)
  /\ NoActionList(decodeMetadata(res.metaStr).val)

\* C6 (as stated): for a valid vector whose metadata has no doc/actions key
\* or no sequence under it, parseBindingEntry returns an entry with zero
\* Actions, not a skip and not an error.
C6_UnboundEntryBuilt ==
  BuiltWithoutActions =>
    /\ pc = "scan" /\ err = ""
    /\ Len(ret) = 1
    /\ ret[1].Actions = <<>>

\* C6 (amended): for a valid vector whose metadata has no doc/actions key or
\* no sequence under it, parseBindingEntry returns nil, the skip signal, and
\* no error; no entry is built.
C6_NoActionListReturnsNil ==
  BuiltWithoutActions => (pc = "scan" /\ err = "" /\ ret = <<>>)

\* C6 witness: a form whose doc/actions is a string has just been built
C6_Witness ==
  /\ BuiltWithoutActions
  /\ MapHas(decodeMetadata(res.metaStr).val, kwDocActions)
  /\ ret = <<>>
  /\ pc = "scan"

\* C7: a rule form with a valid vector and no doc/actions metadata adds no
\* entry, writes and reports nothing, and the loop goes on to the forms
\* after it.
C7_MissingActionsSkipped ==
  [][(Decodes /\ ValidVec(NextVec.val)
        /\ ~MapHas(NextMeta.val, kwDocActions))
       => (entries' = entries /\ out' = out /\ GoesOn)]_vars

\* C7 witness: an entry was built from a form that follows a skipped form
\* without doc/actions
C7_Witness ==
  /\ pc = "scan"
  /\ entries # <<>>
  /\ \E c \in Carets(text, 0, origin[1]) :
       /\ IsPair(text, c)
       /\ VecEnd(text, c) < origin[1]
       /\ ~decodeMetadata(PairResult(text, c).metaStr).err
       /\ ~MapHas(decodeMetadata(PairResult(text, c).metaStr).val, kwDocActions)
       /\ BuiltFrom(text, c) = {<<>>}

\* C8: when the map text or the vector text of a rule form does not decode,
\* the run ends there with a fatal error, and no renderer output exists,
\* then or later, whatever was decoded before.
C8_DecodeFailureAborts ==
  /\ [][(pc = "scan" /\ NextForm.ok /\ (NextMeta.err \/ NextVec.err))
          => (pc' = "crashed" /\ err' \in DecodeErrs /\ out' = <<>>)]_vars
  /\ [](err \in DecodeErrs => (pc = "crashed" /\ out = <<>>))
  /\ [][pc = "crashed" => FALSE]_vars

\* C8 witness: the run died on a decode error after an entry of the same
\* file had been built
C8_Witness ==
  /\ err \in DecodeErrs
  /\ pc = "crashed"
  /\ entries # <<>>
  /\ out = <<>>

(* --------------------------- program filter ---------------------------- *)

\* the actions of e whose Program the pattern matches, in their order
MatchingActions(e, p) ==
  LET Hit(a) == MatchString(p, a.Program) IN SelectSeq(e.Actions, Hit)

\* the entries a filter with pattern p is to return for es
Survivors(es, p) ==
  LET Kept(e) == MatchingActions(e, p) # <<>>
      kept == SelectSeq(es, Kept)
  IN [x \in 1..Len(kept) |->
        [Trigger  |-> kept[x].Trigger,
         Binding  |-> kept[x].Binding,
         Sequence |-> kept[x].Sequence,
         Actions  |-> MatchingActions(kept[x], p)]]

Filtered == flags.command # "" /\ pc = "done"

IsLiteral(p) == \A x \in 1..Len(p) : p[x] \notin {"^", "$", ".", "("}

\* C9: for a non-empty pattern filterByProgram returns, in their order, the
\* entries with an action whose Program the pattern matches anywhere, each
\* with exactly its matching actions in their order and its other fields as
\* they were.
C9_FilterKeepsMatches ==
  (Filtered /\ filtered.programFilter # <<>>) =>
    /\ filtered.out = Survivors(all, filtered.programFilter)
    /\ IsLiteral(filtered.programFilter) =>
         LET Has(e) == \E y \in 1..Len(e.Actions) :
                         Index(e.Actions[y].Program, filtered.programFilter) >= 0
             kept == SelectSeq(all, Has)
         IN /\ Len(filtered.out) = Len(kept)
            /\ \A z \in 1..Len(kept) :
                 /\ filtered.out[z].Trigger = kept[z].Trigger
                 /\ filtered.out[z].Binding = kept[z].Binding
                 /\ filtered.out[z].Sequence = kept[z].Sequence
                 /\ \A y \in 1..Len(filtered.out[z].Actions) :
                      Index(filtered.out[z].Actions[y].Program,
                            filtered.programFilter) >= 0

\* C9 witness: a filter that dropped an entry and cut another entry's actions
C9_Witness ==
  /\ Filtered
  /\ filtered.programFilter # <<>>
  /\ filtered.out # <<>>
  /\ Len(filtered.out) < Len(all)
  /\ \E x \in 1..Len(all) :
       /\ Len(all[x].Actions) = 2
       /\ \E z \in 1..Len(filtered.out) :
            /\ filtered.out[z].Binding = all[x].Binding
            /\ Len(filtered.out[z].Actions) = 1

\* C10: with the empty pattern filterByProgram returns the collection as it
\* is: the same entries in the same order with all their actions, those
\* without actions included.
C10_EmptyPatternIdentity ==
  (flags.command = "display" /\ pc = "done" /\ filtered.programFilter = <<>>)
    => filtered.out = all

\* C10 witness: the empty pattern on a collection with an entry without
\* actions and one with actions
C10_Witness ==
  /\ flags.command = "display"
  /\ pc = "done"
  /\ flags.program = <<>>
  /\ filtered.out = all
  /\ \E x \in 1..Len(all) : all[x].Actions = <<>>
  /\ \E x \in 1..Len(all) : Len(all[x].Actions) = 2

(* ------------------------- filter, applied twice ----------------------- *)

\* C11: for every pattern, filtering the result of filterByProgram again
\* with the same pattern gives that result again (and a pattern that ends
\* the process the first time ends it the second time too).
C11_FilterIdempotent ==
  \A p \in Patterns :
    LET once == filterByProgram(all, p)
        twice == filterByProgram(once.out, p)
    IN /\ twice.fatal = once.fatal
       /\ twice.out = once.out
       /\ (Filtered /\ filtered.programFilter = p) => filtered.out = once.out

\* C11 witness: a filter that dropped an entry and cut the actions of
\* another, and whose result the same filter leaves as it is
C11_Witness ==
  /\ Filtered
  /\ filtered.programFilter # <<>>
  /\ filtered.out # <<>>
  /\ Len(filtered.out) < Len(all)
  /\ \E x \in 1..Len(all) : \E z \in 1..Len(filtered.out) :
       /\ filtered.out[z].Binding = all[x].Binding
       /\ Len(filtered.out[z].Actions) < Len(all[x].Actions)
  /\ filterByProgram(filtered.out, filtered.programFilter).out = filtered.out

(* ------------------------------ key strings ---------------------------- *)

\* the sections of the config file the table was built from
Section(table, program) ==
  IF program \in DOMAIN table THEN table[program].local ELSE EmptyMap

DefaultSection(table) ==
  IF table = EmptyMap THEN EmptyMap
  ELSE (CHOOSE f \in {table[x] : x \in DOMAIN table} : TRUE).defaultMap

\* what a token is to read as for a program without a table of its own
ByDefault(table, tok) ==
  IF tok \in DOMAIN DefaultSection(table) THEN DefaultSection(table)[tok] ELSE tok

KeyFormatted == keyCall.fn = "formatKeySeq"

\* the modifiers as read, joined, and the key as read behind them; the key
\* alone where the joined modifiers are the empty string
Joined(mods, key, sep) ==
  IF Join(mods, sep) = <<>> THEN key ELSE Join(mods, sep) \o sep \o key

\* C16: formatKeySeq returns a string for every program and every table; a
\* program without a table of its own, once normalized, gets every token
\* read through the default section, and as it is when that section is
\* missing or does not hold it.  With default = {O: Alt, T: Ctrl} the
\* modifiers OT of unknown-app come out as Alt-Ctrl.
C16_UnknownProgramUsesDefault ==
  KeyFormatted =>
    /\ ~keyCall.ret.panic
    /\ pc = "formatted"
    /\ normalizeProgram(keyCall.program) \notin (DOMAIN lookups.embed \ {strDefault}) =>
         LET k == keyCall.k
             mods == [x \in 1..Len(k.Modifier) |->
                        ByDefault(lookups.embed, <<k.Modifier[x]>>)]
             key == ByDefault(lookups.embed,
                              IF k.Key = <<"f", "1">> THEN <<"F", "1">> ELSE k.Key)
             body == Joined(mods, key, keyCall.sep)
         IN keyCall.ret.out =
              (IF k.Mode = <<>> THEN body ELSE <<"(">> \o k.Mode \o <<")", " ">> \o body)
    /\ ( /\ lookups = initConfigDirs(cfgDefaultOnly)
         /\ keyCall.program = strUnknownApp
         /\ keyCall.k.Modifier = <<"O", "T">>
         /\ keyCall.k.Mode = <<>>
         /\ keyCall.sep = <<"-">> )
       => HasPrefix(keyCall.ret.out, strAlt \o <<"-">> \o strCtrl \o <<"-">>)

\* C16 witness: unknown-app formatted with the default section alone
C16_Witness ==
  /\ KeyFormatted
  /\ lookups = initConfigDirs(cfgDefaultOnly)
  /\ keyCall.program = strUnknownApp
  /\ keyCall.k = [Mode |-> <<>>, Modifier |-> <<"O", "T">>, Key |-> <<"b">>]
  /\ keyCall.sep = <<"-">>
  /\ keyCall.ret.out = strAlt \o <<"-">> \o strCtrl \o <<"-", "b">>


(* ------------------- C12: the filter leaves its input ------------------ *)

\* an entry of flt is a copy of an entry of es with fewer actions
ReducedCopy(flt, es) ==
  \E x \in 1..Len(flt), y \in 1..Len(es) :
    /\ Len(flt[x].Actions) < Len(es[y].Actions)
    /\ [flt[x] EXCEPT !.Actions = es[y].Actions] = es[y]

\* C12: filterByProgram never modifies the entries of its input collection.
\* Every command hands the parsed collection to filterByProgram (display
\* once, interpret once per target, embed once), and after the command the
\* collection holds the same entries with the same Actions and fields as
\* before; the reduced Actions are those of the copies it returned.
C12_FilterLeavesInput == [][Parsed => all' = all]_vars

\* a command has run with a pattern that dropped some actions of an entry and
\* kept others: the returned copy has fewer actions than the input entry
C12_Witness ==
  /\ pc = "done"
  /\ filtered.programFilter # <<>>
  /\ ReducedCopy(filtered.out, all)


(* --------------- C13: entries with no action in display ---------------- *)

\* display has run to its end
Displayed == pc = "done" /\ flags.command = "display"

\* the entries display handed to emitTable
Selection == out[Len(out)].entries

InSeq(e, q) == \E y \in 1..Len(q) : q[y] = e

\* the parsed entries with an empty Actions list
Unbound == {x \in 1..Len(all) : all[x].Actions = <<>>}

\* C13 as stated: for every program pattern (empty or not), an entry with an
\* empty Actions list is classified as empty, is excluded from the DEFAULT
\* render mode, is included in the EMPTY render mode and is included in the
\* FULL render mode.
C13_UnboundInEveryPattern ==
  Displayed =>
    \A x \in Unbound :
      /\ isEmptyEntry(all[x])
      /\ flags.renderMode = "DEFAULT" => ~InSeq(all[x], Selection)
      /\ flags.renderMode \in {"EMPTY", "FULL"} => InSeq(all[x], Selection)

\* C13 amended: an entry with an empty Actions list is classified as empty
\* and is excluded from the DEFAULT render mode; with the empty program
\* pattern it is included in the EMPTY and in the FULL render mode; with a
\* non-empty pattern the program filter has dropped it before the render
\* mode is looked at, and no render mode includes it.
C13_UnboundByPattern ==
  Displayed =>
    \A x \in Unbound :
      /\ isEmptyEntry(all[x])
      /\ flags.renderMode = "DEFAULT" => ~InSeq(all[x], Selection)
      /\ flags.program = <<>> /\ flags.renderMode \in {"EMPTY", "FULL"}
           => InSeq(all[x], Selection)
      /\ flags.program # <<>> => ~InSeq(all[x], Selection)

\* display ran in FULL mode with a non-empty pattern over a collection that
\* holds an entry with no action next to entries the pattern keeps
C13_Witness ==
  /\ Displayed
  /\ flags.program # <<>>
  /\ flags.renderMode = "FULL"
  /\ Unbound # {}
  /\ Selection # <<>>


(* ------------- C14: the render modes split the collection -------------- *)

RECURSIVE IsSubseq(_, _)
\* a is b with some elements left out, the others in their order
IsSubseq(a, b) ==
  IF a = <<>> THEN TRUE
  ELSE IF b = <<>> THEN FALSE
  ELSE IF Head(a) = Head(b) THEN IsSubseq(Tail(a), Tail(b))
  ELSE IsSubseq(a, Tail(b))

\* C14: for every filtered collection, the entries DEFAULT mode selects and
\* the entries EMPTY mode selects are disjoint and together are exactly the
\* entries FULL mode selects: every entry is in exactly one of the two, and
\* each mode keeps the entries in their relative order.
C14_ModesPartition ==
  Displayed =>
    LET flt == filtered.out
        bound == renderSelect(flt, "DEFAULT")
        unbound == renderSelect(flt, "EMPTY")
        full == renderSelect(flt, "FULL")
    IN /\ Selection = renderSelect(flt, flags.renderMode)
       /\ full = flt
       /\ \A x \in 1..Len(bound) : ~InSeq(bound[x], unbound)
       /\ \A x \in 1..Len(full) : InSeq(full[x], bound) \/ InSeq(full[x], unbound)
       /\ Len(bound) + Len(unbound) = Len(full)
       /\ IsSubseq(bound, full)
       /\ IsSubseq(unbound, full)

\* display ran over a filtered collection of three entries or more in
\* which an unbound entry comes before a bound one
C14_Witness ==
  /\ Displayed
  /\ Len(filtered.out) >= 3
  /\ \E x, y \in 1..Len(filtered.out) :
       /\ x < y
       /\ isEmptyEntry(filtered.out[x])
       /\ ~isEmptyEntry(filtered.out[y])


(* ---------------- C15: key collisions in the renderers ----------------- *)

\* the records of renderer calls that wrote bindings
RenderRecords ==
  {x \in 1..Len(out) : out[x].fn \in {"emitConfig", "mbomboForging"}}

\* the key string the renderer of record r builds for a pair
RenderKey(r, pair) ==
  IF r.fn = "emitConfig"
  THEN formatKeySeq(pair.entry.Binding, lookups.interpret, pair.act.Program, <<"-">>).out
  ELSE IF r.target = strLazygit
  THEN formatKeySeq(pair.entry.Binding, lookups.embed, pair.act.Program, <<"-">>).out
  ELSE formatKeySeq(pair.entry.Binding, lookups.embed,
                    normalizeProgram(r.target), <<" ">>).out

\* the lines of record r that are not bindings: headers, and the braces of
\* the micro object
FixedLines(r) ==
  IF r.fn # "emitConfig" THEN 0
  ELSE (IF r.target \in DOMAIN programHeaders
        THEN Len(programHeaders[r.target]) ELSE 0)
       + (IF r.target = strMicro THEN 2 ELSE 0)

\* pairs x < y of record r that come to the same key
Collide(r, x, y) ==
  LET pairs == actionPairs(r.entries)
  IN x < y /\ RenderKey(r, pairs[x]) = RenderKey(r, pairs[y])

\* C15: in every renderer (emitConfig for helix and micro, embedConfig for
\* lazygit and zellij), when two (entry, action) pairs that survive the
\* program filter normalize to the same key string, only the later pair
\* contributes to the output: the renderer writes one binding per key, and
\* an earlier pair of a collision adds none.
C15_LastWriteWins ==
  \A i \in RenderRecords :
    LET r == out[i]
        pairs == actionPairs(r.entries)
        winners == {x \in 1..Len(pairs) :
                      \A y \in 1..Len(pairs) : ~Collide(r, x, y)}
    IN Len(r.lines) - FixedLines(r) = Cardinality(winners)


(* ------------------ C17: targets without a renderer -------------------- *)

\* the command has a renderer for the target: emitConfig for the helix
\* targets and micro, embedConfig for lazygit and the zellij family
HasRenderer(command, target) ==
  IF command = "interpret" THEN target \in emitTargets \cup {strHelix}
  ELSE target = strLazygit \/ HasPrefix(target, strZellij)

\* C17: for any target identifier that has no renderer, emitConfig and
\* embedConfig end in the fatal error that names the identifier, having
\* written no binding output and issued no splice command; no target that
\* lacks a renderer completes silently.
C17_NoRendererIsFatal ==
  (flags.command \in {"interpret", "embed"}
   /\ ~HasRenderer(flags.command, flags.program))
  => /\ pc = "crashed"
     /\ err = "fatal: unsupported --program %q"
     /\ out = <<>>


(* --------------------- C18: emitConfig is a function ------------------- *)

\* C18: two invocations of emitConfig with the same entry collection, the
\* same target and the same lookup tables produce the same output text,
\* line for line and in the same line order.
C18_SameInputsSameText ==
  Parsed =>
    \A target \in emitTargets :
      \A o1, o2 \in emitConfig(all, target) : o1.out = o2.out


(* --------------------- C19: Sequence as key token ---------------------- *)

\* the Binding of entry e with its Sequence as the key token
SequenceBinding(e) == [e.Binding EXCEPT !.Key = e.Sequence]

\* the key string the renderer of record r would build for a pair from the
\* Sequence of its entry
SequenceKey(r, pair) ==
  RenderKey(r, [pair EXCEPT !.entry.Binding = SequenceBinding(pair.entry)])

\* a key as it stands in a line of record r
KeyInLine(r, key) ==
  IF r.fn = "emitConfig"
  THEN IF r.target = strMicro THEN <<" ", " ">> \o Quote(key) \o <<":", " ">>
       ELSE key \o <<" ", "=", " ">>
  ELSE IF r.target = strLazygit THEN <<"'", "<">> \o key \o <<">", "'">>
  ELSE <<"\\", "\"">> \o key \o <<"\\", "\"", " ", "{">>

\* C19: for every entry whose Sequence is non-empty, every formatting path
\* that turns the entry into a key string uses Sequence in place of
\* Binding.Key as the key token: formatBindingEntry for the display table,
\* and the key emitConfig and embedConfig build for the config output.
C19_SequenceIsKeyToken ==
  /\ Displayed =>
       \A x \in 1..Len(Selection) :
         \A y \in 1..Len(Selection[x].Actions) :
           Selection[x].Sequence # <<>> =>
             formatBindingEntry(Selection[x], lookups.displayBinding,
                                Selection[x].Actions[y].Program).out
             = formatKeySeq([Mode |-> <<>>,
                             Modifier |-> Selection[x].Binding.Modifier,
                             Key |-> Selection[x].Sequence],
                            lookups.displayBinding,
                            Selection[x].Actions[y].Program, <<"-">>).out
  /\ \A i \in RenderRecords :
       LET r == out[i]
           pairs == actionPairs(r.entries)
       IN \A x \in 1..Len(pairs) :
            pairs[x].entry.Sequence # <<>> =>
              \E l \in 1..Len(r.lines) :
                Index(r.lines[l], KeyInLine(r, SequenceKey(r, pairs[x]))) # -1


(* ------------------ C20: the Sequence of an entry ---------------------- *)

\* parseBindingEntry has just built an entry from the form in res
Built == pc = "scan" /\ res.ok /\ ret # <<>>

\* the elements of doc/actions in the metadata of the form in res
SourceActs == MapGet(decodeMetadata(res.metaStr).val, kwDocActions).e

\* the action maps among them that give a sequence other than nil, by
\* their place in the source
SequenceGivers ==
  {x \in 1..Len(SourceActs) :
     SourceActs[x].t = "map" /\ MapGet(SourceActs[x], kwSequence).t # "nil"}

\* C20: parseBindingEntry sets the entry's Sequence to the value of the
\* sequence sub-key of the last action map in source order that has a
\* non-nil sequence; earlier values are discarded, and when no action map
\* has one, Sequence is empty.
C20_LastSequenceWins ==
  Built =>
    ret[1].Sequence =
      IF SequenceGivers = {} THEN <<>>
      ELSE LET last == CHOOSE x \in SequenceGivers :
                         \A y \in SequenceGivers : y <= x
           IN Sprint(MapGet(SourceActs[last], kwSequence))

\* an entry was built from action maps of which two give different
\* sequences and a later one gives nil
C20_Witness ==
  /\ Built
  /\ \E x, y \in SequenceGivers :
       /\ x < y
       /\ MapGet(SourceActs[x], kwSequence) # MapGet(SourceActs[y], kwSequence)
       /\ \E z \in 1..Len(SourceActs) :
            /\ y < z
            /\ SourceActs[z].t = "map"
            /\ MapHas(SourceActs[z], kwSequence)
            /\ z \notin SequenceGivers


(* ------------------- C21: the tiers of a lookup ------------------------ *)

\* the section of the config the closure picked for program reads first
OwnSection(table, program) == Section(table, normalizeProgram(program))

\* a token read through the program's section, then the default section,
\* then left as it is
ByTiers(table, program, tok) ==
  IF tok \in DOMAIN OwnSection(table, program) THEN OwnSection(table, program)[tok]
  ELSE ByDefault(table, tok)

\* the string a call is to return when every modifier and the key token
\* key are read through the tiers
TieredOut(table, k, program, sep, key) ==
  LET mods == [x \in 1..Len(k.Modifier) |-> ByTiers(table, program, <<k.Modifier[x]>>)]
      body == Joined(mods, ByTiers(table, program, key), sep)
  IN IF k.Mode = <<>> THEN body ELSE <<"(">> \o k.Mode \o <<")", " ">> \o body

\* C21: the lookup function built for program P maps a token to the value of
\* P's own table if that table has the token, otherwise to the value of the
\* "default" table if that has it, otherwise to the token unchanged; and
\* formatKeySeq passes the key token through this same lookup, as it does
\* the modifiers.
C21_LookupTiers ==
  KeyFormatted =>
    keyCall.ret.out =
      TieredOut(lookups.embed, keyCall.k, keyCall.program, keyCall.sep,
                normalizeFunctionKey(keyCall.k.Key))

\* helix-normal formatted with a helix section that maps T but not O, and a
\* default section that maps O: one token from each tier
C21_Witness ==
  /\ KeyFormatted
  /\ lookups = initConfigDirs(cfgHelixPartial)
  /\ keyCall.program = helixNormal
  /\ keyCall.k = [Mode |-> <<>>, Modifier |-> <<"O", "T">>, Key |-> <<"b">>]
  /\ keyCall.sep = <<"-">>
  /\ keyCall.ret.out = strAlt \o <<"-", "C", "-", "b">>


(* ------------------------ C22: function keys --------------------------- *)

\* a key token made of 'f' and digits
IsFunctionKey(key) == Len(key) > 1 /\ key[1] = "f" /\ AllIn(Tail(key), Digits)

Uppercased(key) == <<"F">> \o Tail(key)

\* C22 as stated: a key token of the form 'f' and digits is rewritten to 'F'
\* and the same digits before it is looked up, unless the program's own
\* table maps the lowercase form, and then the mapping of the lowercase form
\* is the one used.
C22_LowercaseMappingKept ==
  (KeyFormatted /\ IsFunctionKey(keyCall.k.Key)) =>
    keyCall.ret.out =
      TieredOut(lookups.embed, keyCall.k, keyCall.program, keyCall.sep,
                IF keyCall.k.Key \in DOMAIN OwnSection(lookups.embed, keyCall.program)
                THEN keyCall.k.Key ELSE Uppercased(keyCall.k.Key))

\* C22 amended: a key token of the form 'f' and digits is always rewritten
\* to 'F' and the same digits before it is looked up; a mapping of the
\* lowercase form in the program's table is never read, and the token comes
\* out as the mapping of the uppercase form, or as the uppercase form where
\* no table maps it.
C22_AlwaysUppercased ==
  (KeyFormatted /\ IsFunctionKey(keyCall.k.Key)) =>
    keyCall.ret.out =
      TieredOut(lookups.embed, keyCall.k, keyCall.program, keyCall.sep,
                Uppercased(keyCall.k.Key))

\* f1 formatted for helix with a helix section that maps f1 and a default
\* section that maps F1: the mapping of F1 comes out
C22_Witness ==
  /\ KeyFormatted
  /\ lookups = initConfigDirs(cfgHelixPartial)
  /\ keyCall.program = strHelix
  /\ keyCall.k = [Mode |-> <<>>, Modifier |-> <<>>, Key |-> <<"f", "1">>]
  /\ keyCall.ret.out = <<"u", "p">>


(* --------------------- C23: program families --------------------------- *)

\* program identifiers to compare a call with: those of the calls, the
\* twelve helix mode variants, zellij and two zellij- variants
ProgramNames ==
  FormatPrograms \cup helixFamily \cup
  {strZellij, strZellij \o <<"-", "x">>, strZellij \o <<"-", "y", "z">>}

BindingFormatted == keyCall.fn = "formatBindingEntry"

\* C23: family normalization comes before the choice of the lookup table:
\* for program identifiers p and q with normalizeProgram(p) =
\* normalizeProgram(q), formatKeySeq and formatBindingEntry return the same
\* string for every key sequence and every table configuration; and
\* normalizeProgram is idempotent.
C23_FamilyVariantsAgree ==
  /\ \A p \in ProgramNames :
       normalizeProgram(normalizeProgram(p)) = normalizeProgram(p)
  /\ \A q \in ProgramNames :
       normalizeProgram(q) = normalizeProgram(keyCall.program) =>
         /\ KeyFormatted =>
              formatKeySeq(keyCall.k, lookups.embed, q, keyCall.sep) = keyCall.ret
         /\ BindingFormatted =>
              formatBindingEntry([Binding |-> keyCall.k,
                                  Sequence |-> keyCall.sequence],
                                 lookups.displayBinding, q) = keyCall.ret

\* helix-normal formatted where helix has a section of its own that differs
\* from the default section
C23_Witness ==
  /\ KeyFormatted
  /\ lookups = initConfigDirs(RunCfg)
  /\ keyCall.program = helixNormal
  /\ keyCall.k = [Mode |-> <<>>, Modifier |-> <<"T">>, Key |-> <<"b">>]
  /\ keyCall.sep = <<"-">>
  /\ keyCall.ret.out = <<"C", "-", "b">>


(* ------------------- C24: modifiers in source order -------------------- *)

\* the modifiers of the call, each read through the closure the call picked
ModsRead ==
  [x \in 1..Len(keyCall.k.Modifier) |->
     ByTiers(lookups.embed, keyCall.program, <<keyCall.k.Modifier[x]>>)]

\* the key token of the call as the closure maps it
KeyRead ==
  ByTiers(lookups.embed, keyCall.program, normalizeFunctionKey(keyCall.k.Key))

\* what the call returned, without the "(mode) " it puts in front
OutBody ==
  IF keyCall.k.Mode = <<>> THEN keyCall.ret.out
  ELSE SubSeq(keyCall.ret.out, Len(keyCall.k.Mode) + 4, Len(keyCall.ret.out))

TomlListed == pc = "formatted" /\ out[1].fn = "tomlList"

\* what the call returned
Returned == out[1].lines[1]

\* the value is wrapped in [ ], white space around it aside
Wrapped(raw) ==
  LET t == TrimSpace(raw)
  IN Len(t) >= 2 /\ t[1] = "[" /\ t[Len(t)] = "]"

\* what stands between the outer brackets
Inside(raw) == SubSeq(TrimSpace(raw), 2, Len(TrimSpace(raw)) - 1)

\* where the tokens of s start: a character that is not white space, at the
\* front of s or behind white space
TokenStarts(s) ==
  {x \in 1..Len(s) : ~IsSpace(s[x]) /\ (x = 1 \/ IsSpace(s[x - 1]))}

\* the token of s that starts at a
TokenAt(s, a) ==
  SubSeq(s, a, Min({e \in a..Len(s) : e = Len(s) \/ IsSpace(s[e + 1])}))

\* the tokens of s between white space, in their order
Tokens(s) ==
  [k \in 1..Cardinality(TokenStarts(s)) |->
     TokenAt(s, CHOOSE a \in TokenStarts(s) :
                  Cardinality({b \in TokenStarts(s) : b < a}) = k - 1)]

\* the tokens, each quoted, with commas between them and brackets around
ListLiteral(toks) ==
  <<"[">> \o Join([k \in 1..Len(toks) |-> Quote(toks[k])], <<",">>) \o <<"]">>

ShellMarker == <<":", "s", "h", " ">>

\* C25 as stated: tomlList, given a raw value wrapped in [ ], removes the one
\* outer pair of brackets, splits the inside on white space, quotes each
\* token and returns them comma-separated inside one pair of brackets: as
\* many quoted elements as the inside has tokens, in the same order; an
\* empty inside gives [].
C25_EveryTokenQuoted ==
  (TomlListed /\ Wrapped(text)) =>
    Returned = ListLiteral(Tokens(Inside(text)))

\* C25 amended: the same, unless the inside begins with the shell marker
\* ":sh "; then the whole inside is returned as one quoted element inside
\* the brackets, whatever number of tokens it has.
C25_TokensUnlessShell ==
  (TomlListed /\ Wrapped(text)) =>
    Returned = IF HasPrefix(Inside(text), ShellMarker)
               THEN ListLiteral(<<Inside(text)>>)
               ELSE ListLiteral(Tokens(Inside(text)))

\* a value with white space around the brackets and two tokens inside, one
\* of them with a double quote
C25_Witness ==
  /\ TomlListed
  /\ text = <<" ", "[", "a", " ", "b", "\"", "]", "\n">>
  /\ Returned = <<"[", "\"", "a", "\"", ",", "\"", "b", "\\", "\"", "\"", "]">>


(* ------------------- C26: the shell-escape marker ---------------------- *)

\* the value without the white space around it, without one leading [ and
\* without one trailing ]
Stripped(raw) ==
  LET t == TrimSpace(raw)
      u == IF Len(t) > 0 /\ t[1] = "[" THEN SubSeq(t, 2, Len(t)) ELSE t
  IN IF Len(u) > 0 /\ u[Len(u)] = "]" THEN SubSeq(u, 1, Len(u) - 1) ELSE u

\* C26 as stated: the raw command value "[:sh echo hi]" is emitted as the
\* single quoted string "[:sh echo hi]", the brackets inside the quotes.
C26_ShellQuotedWithBrackets ==
  (TomlListed /\ text = strShellScenario) =>
    Returned = Quote(strShellScenario)

\* C26 amended: a value that begins with the shell marker ":sh " once the
\* white space around it and its outer brackets are removed is emitted as
\* an array of one element, that whole inside as one quoted string, never
\* split on white space: "[:sh echo hi]" gives [":sh echo hi"], the
\* brackets outside the quotes.
C26_ShellIsOneElement ==
  (TomlListed /\ HasPrefix(Stripped(text), ShellMarker)) =>
    /\ Returned = <<"[">> \o Quote(Stripped(text)) \o <<"]">>
    /\ text = strShellScenario =>
         Returned = <<"[", "\"", ":", "s", "h", " ", "e", "c", "h", "o",
                      " ", "h", "i", "\"", "]">>

\* the scenario's value went through tomlList and came out in one piece
C26_Witness ==
  /\ TomlListed
  /\ text = strShellScenario
  /\ Len(Fields(Stripped(text))) = 3
  /\ Returned = <<"[">> \o Quote(Stripped(text)) \o <<"]">>


(* ------------------- C27: the zellij replacement pair ------------------ *)

ZellijReplaced == pc = "formatted" /\ out[1].fn = "formatZellijReplace"

\* the command without the square brackets at its two ends
Unbracketed(cmd) ==
  LET keep == {x \in 1..Len(cmd) : cmd[x] \notin {"[", "]"}}
  IN IF keep = {} THEN <<>>
     ELSE SubSeq(cmd, Min(keep), CHOOSE x \in keep : \A y \in keep : y <= x)

\* the command with a backslash in front of every double quote
Backslashed(cmd) ==
  Concat([x \in 1..Len(cmd) |->
            IF cmd[x] = "\"" THEN <<"\\", "\"">> ELSE <<cmd[x]>>])

\* the old side of the pair: the escaped command in double quotes
OldSide(cmd) == <<"\"">> \o Backslashed(Unbracketed(cmd)) \o <<"\"">>

\* the new side of the pair: the bind line
NewSide(key, cmd) ==
  <<"        bind ", "\\", "\"">> \o key \o <<"\\", "\"", " ", "{", " ">>
  \o Backslashed(Unbracketed(cmd)) \o <<" ", "}", ":line">>

\* C27: for a zellij target the replacement pair of a (key, command) has as
\* new side the templated line: bind, the key string in escaped double
\* quotes, then the command between braces; the command on both sides has
\* every double quote of the raw command preceded by a backslash and its
\* leading and trailing square brackets removed, and the old side is that
\* escaped command wrapped in double quotes.
C27_ZellijPair ==
  ZellijReplaced =>
    Returned = <<"--replace ">> \o OldSide(text) \o <<"=", "\"">>
               \o NewSide(keyCall.ret.out, text) \o <<"\"">>

\* a command in brackets with a double quote inside, bound to Ctrl b
C27_Witness ==
  /\ ZellijReplaced
  /\ text = <<"[", "b", "\"", " ", "a", "]">>
  /\ keyCall.ret.out = <<"C", "t", "r", "l", " ", "b">>
  /\ Returned = <<"--replace ", "\"", "b", "\\", "\"", " ", "a", "\"", "=", "\"",
                  "        bind ", "\\", "\"", "C", "t", "r", "l", " ", "b",
                  "\\", "\"", " ", "{", " ", "b", "\\", "\"", " ", "a",
                  " ", "}", ":line", "\"">>


(* ------------------- C28: the scan always advances --------------------- *)

\* the offset of the '^' the call extractEntry(t, start) examines, -1 when
\* there is none at or after start
CaretAt(t, start) ==
  LET at == {k \in start..(Len(t) - 1) : At(t, k) = "^"}
  IN IF at = {} THEN -1 ELSE Min(at)

\* the offset the call extractEntry(t, start) calls itself with, -1 when it
\* returns without calling itself
RestartAt(t, start) ==
  LET i == CaretAt(t, start)
      j == skipSpace(t, i + 1)
      m == metaLoop(t, j, 0)
      p == skipSpace(t, m.k)
  IN IF i < 0 THEN -1
     ELSE IF j >= Len(t) \/ At(t, j) # "{" THEN i + 1
     ELSE IF m.count # 0 THEN -1
     ELSE IF p >= Len(t) \/ At(t, p) # "[" THEN m.k
     ELSE -1

\* the '^' of t at or after the offset a
CaretsFrom(t, a) == {k \in a..(Len(t) - 1) : At(t, k) = "^"}

\* a call at any offset has returned: its restart, if it made one, was
\* past the '^' and inside the text, and so is the nextPos of a success
ScanAdvances ==
  Scanned =>
    /\ RestartAt(text, startPos) >= 0 =>
         /\ CaretAt(text, startPos) < RestartAt(text, startPos)
         /\ RestartAt(text, startPos) <= Len(text)
         /\ res = extractEntry(text, RestartAt(text, startPos))
    /\ res.ok =>
         /\ startPos < res.nextPos
         /\ res.nextPos <= Len(text)
         /\ \E k \in CaretsFrom(text, startPos) : k < res.nextPos

\* a turn of the loop that is followed by another one moved pos forward
\* over at least one '^'
TurnAdvances ==
  (pc = "scan" /\ pc' = "scan") =>
    /\ pos < pos'
    /\ pos' <= Len(text)
    /\ Cardinality(CaretsFrom(text, pos')) < Cardinality(CaretsFrom(text, pos))

\* a turn of the loop that is followed by another one
AnotherTurn == pc = "scan" /\ pc' = "scan"

\* C28: for every text and every start offset between 0 and its length
\* extractEntry returns, without an index outside the text; every restart
\* is at an offset greater than that of the '^' just examined and every
\* success returns a nextPos greater than the start offset; each turn of
\* the loop of parseBindingEntries that is followed by another consumes at
\* least one '^' of the text, and the loop always ends: no run takes
\* turns for ever.
C28_ScanTerminates ==
  /\ []ScanAdvances
  /\ [][TurnAdvances]_vars
  /\ <>[][~AnotherTurn]_vars

\* the loop ended after three turns over a text with a '^' that no map
\* follows, a map that no vector follows, and a complete form
C28_Witness ==
  /\ pc = "ret"
  /\ text = <<"^", "^", "{", "}", "^", "{", "}", "[", "]">>
  /\ startPos = 9
  /\ pos = 9
  /\ ~res.ok


(* ------------------- C29: one split whatever the order ----------------- *)

SplitDone == pc = "formatted" /\ keyCall.fn = "splitEDNKey"

\* the splits the pattern called name yields for the stripped text
SplitsOf(name) ==
  {rgGroups(name, mk) : mk \in rgMatch(name, stripEDNPrefix(text))}

\* C29: splitEDNKey is deterministic although it tries the patterns of rg
\* in an unspecified order: all patterns that match the string yield the
\* same (modifier, key), which is what the call returns, and when no
\* pattern matches the call returns the empty modifier and the whole
\* string without its prefix as key.
C29_OneSplit ==
  SplitDone =>
    /\ \A n1 \in rg, n2 \in rg :
         \A a \in SplitsOf(n1), b \in SplitsOf(n2) : a = b
    /\ \A n \in rg : \A a \in SplitsOf(n) :
         a = <<keyCall.k.Modifier, keyCall.k.Key>>
    /\ (\A n \in rg : SplitsOf(n) = {}) =>
         /\ keyCall.k.Modifier = <<>>
         /\ keyCall.k.Key = stripEDNPrefix(text)

\* a key that two patterns match, ch and ot, split after the modifiers
C29_Witness ==
  /\ SplitDone
  /\ text = <<":", "!", "O", "T", "a">>
  /\ SplitsOf("ch") # {}
  /\ SplitsOf("ot") # {}
  /\ keyCall.k.Modifier = <<"O", "T">>
  /\ keyCall.k.Key = <<"a">>


(* ------------------- C30: extractMode and the window ------------------- *)

\* C30: for every text extractMode returns a mode, the empty one
\* included, without an index outside the text: also when ":rules" stands
\* fewer than 20 bytes before the end of the text, and when the first '['
\* is the last byte of the 20 bytes from ":rules" on.
C30_ModeAlwaysReturned ==
  pc # "ready" => /\ err = ""
                  /\ pc = "scan"

====
